---- MODULE Spec2Model ----
(***************************************************************************)
(* Debug-Arena content generators: the record segmenters, the field        *)
(* extractors and the string escaping of generate_puzzles.py, parser2.py,  *)
(* parse_questions.py and the generate_questions_*.py scripts.             *)
(*                                                                         *)
(* Text is a sequence of characters, each character a one-element string.  *)
(* Python's 0-based offsets are kept: Slice(t, a, b) is t[a:b].            *)
(***************************************************************************)
EXTENDS Integers, Sequences, FiniteSets, TLC

VARIABLES
    script,           \* which program runs
    pc,               \* its position
    file_exists,      \* whether the input path exists
    content,          \* the document: the text of the input file, or raw_text
    lines,            \* parser2: f.readlines(); elsewhere the lines of the record in hand
    starts,           \* the boundaries: starts / q_starts / matches
    units,            \* the spans: puzzle_blocks / units
    i,                \* index of the record in hand (0-based)
    pos,              \* line scanners: index of the next body line
    current_header,   \* line scanners: the open label, or None
    current_content,  \* line scanners: the accumulator
    input_handle,     \* the file object f of the input: unopened, open or closed
    fields,           \* the field mapping of the record in hand
    questions,        \* the records extracted so far
    swift_code,       \* the output built so far
    stdout,           \* what has been printed
    outfile,          \* generate_puzzles: puzzles_swift.txt, written or not
    stderr,           \* the tracebacks of the exceptions no handler caught
    esc_s,            \* escaping: the argument s
    esc_r,            \* escaping: the value after esc_n replace calls
    esc_n             \* escaping: how many of the three replace calls have run

runVars == <<script, pc, file_exists, content, lines, starts, units, i, pos,
             current_header, current_content, fields, questions,
             swift_code, stdout, outfile, stderr, input_handle>>
escVars == <<esc_s, esc_r, esc_n>>
vars == <<runVars, stderr, input_handle, escVars>>

None == "None"

\* puzzles_swift.txt: not written, or written with a text
\* what the interpreter prints when an exception reaches the top level
Traceback(exception) == [kind |-> "traceback", exception |-> exception]

NoFile == [written |-> FALSE, text |-> <<>>]
FileWith(text) == [written |-> TRUE, text |-> text]

-----------------------------------------------------------------------------
(* Characters *)

NL == "\n"
BS == "\\"
DQ == "\""
SP == " "

-----------------------------------------------------------------------------
(* Python's str and list operations, on sequences *)

\* str.strip() and friends remove these
IsSpace(c) == c \in {SP, NL, "\t"}

IsDigit(c) == c \in {"0", "1", "2", "3", "4", "5", "6", "7", "8", "9"}

IsAlpha(c) ==
    c \in {"a", "b", "c", "d", "e", "f", "g", "h", "i", "j", "k", "l", "m",
           "n", "o", "p", "q", "r", "s", "t", "u", "v", "w", "x", "y", "z",
           "A", "B", "C", "D", "E", "F", "G", "H", "I", "J", "K", "L", "M",
           "N", "O", "P", "Q", "R", "S", "T", "U", "V", "W", "X", "Y", "Z"}

Min(a, b) == IF a < b THEN a ELSE b
Max(a, b) == IF a > b THEN a ELSE b

\* t[a:b] with Python's treatment of negative and out-of-range offsets
SliceIndex(t, a) == IF a < 0 THEN Max(a + Len(t), 0) ELSE Min(a, Len(t))
Slice(t, a, b) == SubSeq(t, SliceIndex(t, a) + 1, SliceIndex(t, b))

\* t[a], a 0-based and possibly negative; the caller checks InRange first
InRange(t, a) == IF a < 0 THEN -a <= Len(t) ELSE a < Len(t)
At(t, a) == IF a < 0 THEN t[Len(t) + a + 1] ELSE t[a + 1]

\* the least and the greatest member of a non-empty set of integers
Least(S) == CHOOSE a \in S : \A b \in S : a <= b
Greatest(S) == CHOOSE a \in S : \A b \in S : b <= a

\* the least offset >= a of a character that is not in the class, or len(t)
RunEnd(t, a, InClass(_)) ==
    Least({k \in a..Len(t) : k = Len(t) \/ ~InClass(t[k + 1])})

LStrip(t) == Slice(t, RunEnd(t, 0, IsSpace), Len(t))

RStrip(t) ==
    LET keep == {k \in 1..Len(t) : ~IsSpace(t[k])} IN
    IF keep = {} THEN <<>> ELSE SubSeq(t, 1, Greatest(keep))

Strip(t) == LStrip(RStrip(t))

StartsWith(t, p) == Len(t) >= Len(p) /\ SubSeq(t, 1, Len(p)) = p

\* p occurs in t at 0-based offset a
MatchAt(t, p, a) ==
    a >= 0 /\ a + Len(p) <= Len(t) /\ SubSeq(t, a + 1, a + Len(p)) = p

\* str.find(p, from): the first offset >= from where p occurs, or -1
Find(t, p, from) ==
    LET hits == {a \in from..(Len(t) - Len(p)) : MatchAt(t, p, a)} IN
    IF hits = {} THEN -1 ELSE Least(hits)

\* sep.join(parts)
RECURSIVE Join(_, _)
Join(parts, sep) ==
    IF parts = <<>> THEN <<>>
    ELSE IF Len(parts) = 1 THEN parts[1]
    ELSE parts[1] \o sep \o Join(Tail(parts), sep)

\* str.split('\n'): always at least one part
RECURSIVE SplitNL(_)
SplitNL(t) ==
    LET k == Find(t, <<NL>>, 0) IN
    IF k = -1 THEN <<t>>
    ELSE <<Slice(t, 0, k)>> \o SplitNL(Slice(t, k + 1, Len(t)))

\* f.readlines(): each line keeps its newline; no empty last line
RECURSIVE ReadLines(_)
ReadLines(t) ==
    LET k == Find(t, <<NL>>, 0) IN
    IF t = <<>> THEN <<>>
    ELSE IF k = -1 THEN <<t>>
    ELSE <<Slice(t, 0, k + 1)>> \o ReadLines(Slice(t, k + 1, Len(t)))

\* "".join(parts)
RECURSIVE Flatten(_)
Flatten(parts) ==
    IF parts = <<>> THEN <<>>
    ELSE IF Len(parts) = 1 THEN parts[1]
    ELSE LET h == Len(parts) \div 2 IN
         Flatten(SubSeq(parts, 1, h)) \o Flatten(SubSeq(parts, h + 1, Len(parts)))

\* str.replace(c, rep) for a one-character c
Replace(t, c, rep) ==
    Flatten([j \in 1..Len(t) |-> IF t[j] = c THEN rep ELSE <<t[j]>>])

-----------------------------------------------------------------------------
(* Escaping: s.replace('\\', '\\\\').replace('"', '\\"').replace('\n', '\\n') *)

\* a plausible slip: newlines first, backslashes last
EscapeStepNewlineFirst(k, t) ==
    CASE k = 1 -> Replace(t, NL, <<BS, "n">>)
      [] k = 2 -> Replace(t, DQ, <<BS, DQ>>)
      [] k = 3 -> Replace(t, BS, <<BS, BS>>)

\* a plausible slip: the backslash replacement left out
EscapeStepNoBackslash(k, t) ==
    CASE k = 1 -> t
      [] k = 2 -> Replace(t, DQ, <<BS, DQ>>)
      [] k = 3 -> Replace(t, NL, <<BS, "n">>)

\* a plausible slip: the quote replacement left out
EscapeStepNoQuote(k, t) ==
    CASE k = 1 -> Replace(t, BS, <<BS, BS>>)
      [] k = 2 -> t
      [] k = 3 -> Replace(t, NL, <<BS, "n">>)

\* the k-th replace call of the chain
EscapeStep(k, t) ==
    CASE k = 1 -> Replace(t, BS, <<BS, BS>>)
      [] k = 2 -> Replace(t, DQ, <<BS, DQ>>)
      [] k = 3 -> Replace(t, NL, <<BS, "n">>)

escape_swift_string(t) == EscapeStep(3, EscapeStep(2, EscapeStep(1, t)))

\* How the consumer of the output reads the body of a string literal:
\* backslash-backslash, backslash-quote and backslash-n are one character
\* each, every other character stands for itself.
RECURSIVE Unescape(_)
Unescape(t) ==
    IF t = <<>> THEN <<>>
    ELSE IF Head(t) = BS /\ Len(t) >= 2 /\ t[2] \in {BS, DQ, "n"}
    THEN <<(CASE t[2] = BS -> BS [] t[2] = DQ -> DQ [] t[2] = "n" -> NL)>>
         \o Unescape(Slice(t, 2, Len(t)))
    ELSE <<Head(t)>> \o Unescape(Tail(t))

-----------------------------------------------------------------------------
(* Text constants *)

T_Q1 == <<"Q", "1", SP, "A", "b">>
T_Q2 == <<"Q", "2", SP, "A", "b">>
T_Question == <<"Q", "u", "e", "s", "t", "i", "o", "n">>
T_BrokenCode == <<"B", "r", "o", "k", "e", "n", SP, "C", "o", "d", "e">>
T_Error == <<"E", "r", "r", "o", "r">>
T_Issue == <<"I", "s", "s", "u", "e">>
T_CorrectCode == <<"C", "o", "r", "r", "e", "c", "t", SP, "C", "o", "d", "e">>
T_Riddle == <<"R", "i", "d", "d", "l", "e">>
T_Answer == <<"A", "n", "s", "w", "e", "r">>
T_LogicRule == <<"L", "o", "g", "i", "c", SP, "R", "u", "l", "e">>
T_HiddenTests ==
    <<"H", "i", "d", "d", "e", "n", SP, "T", "e", "s", "t", SP,
      "C", "a", "s", "e", "s", SP, "(", "L", "o", "g", "i", "c", "-",
      "v", "a", "l", "i", "d", "a", "t", "e", "d", ")">>
T_RegexRules ==
    <<"R", "e", "g", "e", "x", SP, "/", SP, "T", "o", "k", "e", "n", SP,
      "R", "u", "l", "e", "s">>
COLON == ":"

-----------------------------------------------------------------------------
(* parser2.py and parse_questions.py: headers_map, in the dict's order *)

HeaderKeys ==
    <<"Broken Code", "Error", "Correct Code", "Riddle",
      "Hidden Test Cases (Logic-validated)", "Logic Rule",
      "Regex / Token Rules", "Answer">>

\* the characters of a key
HeaderText(h) ==
    CASE h = "Broken Code" -> T_BrokenCode
      [] h = "Error" -> T_Error
      [] h = "Correct Code" -> T_CorrectCode
      [] h = "Riddle" -> T_Riddle
      [] h = "Hidden Test Cases (Logic-validated)" -> T_HiddenTests
      [] h = "Logic Rule" -> T_LogicRule
      [] h = "Regex / Token Rules" -> T_RegexRules
      [] h = "Answer" -> T_Answer

headers_map(h) ==
    CASE h = "Broken Code" -> "initialCode"
      [] h = "Error" -> "description"
      [] h = "Correct Code" -> "correctCode"
      [] h = "Riddle" -> "riddle"
      [] h = "Hidden Test Cases (Logic-validated)" -> "hiddenTests"
      [] h = "Logic Rule" -> "conceptExplanation"
      [] h = "Regex / Token Rules" -> "expectedPatterns"
      [] h = "Answer" -> "answer"

\* the slack of parser2's length test
HeaderSlack == 5

\* parser2.py: line_stripped.startswith(h) and len(line_stripped) <= len(h) + 5
P2_Matches(line_stripped, h) ==
    /\ StartsWith(line_stripped, HeaderText(h))
    /\ Len(line_stripped) <= Len(HeaderText(h)) + HeaderSlack

\* parse_questions.py: (line_stripped.replace('\\', '') == h or h in line_stripped)
\* and line_stripped.startswith(h)
PQ_Matches(line_stripped, h) ==
    /\ \/ Replace(line_stripped, BS, <<>>) = HeaderText(h)
       \/ \E a \in 0..Len(line_stripped) : MatchAt(line_stripped, HeaderText(h), a)
    /\ StartsWith(line_stripped, HeaderText(h))

\* the first key of headers_map the line matches (the loop breaks there), or None
RECURSIVE FirstHeader(_, _, _)
FirstHeader(sc, line_stripped, k) ==
    IF k > Len(HeaderKeys) THEN None
    ELSE IF (IF sc = "parser2" THEN P2_Matches(line_stripped, HeaderKeys[k])
                               ELSE PQ_Matches(line_stripped, HeaderKeys[k]))
    THEN HeaderKeys[k]
    ELSE FirstHeader(sc, line_stripped, k + 1)

\* fields[role] = value
Put(f, role, value) ==
    [r \in DOMAIN f \cup {role} |-> IF r = role THEN value ELSE f[r]]

\* fields.get(role, '')
Get(f, role) == IF role \in DOMAIN f THEN f[role] ELSE <<>>

\* a slip: an empty accumulator is not stored (as save_section of
\* generate_puzzles.py does)
StoreFieldUnlessEmpty(f, h, acc) ==
    IF h = None \/ acc = <<>> THEN f
    ELSE Put(f, headers_map(h), Strip(Join(acc, <<NL>>)))

\* a slip: a role that is already stored is not stored again
StoreFieldKeepFirst(f, h, acc) ==
    IF h = None \/ headers_map(h) \in DOMAIN f THEN f
    ELSE Put(f, headers_map(h), Strip(Join(acc, <<NL>>)))

\* if current_header: fields[headers_map[current_header]] = '\n'.join(current_content).strip()
StoreField(f, h, acc) ==
    IF h = None THEN f
    ELSE Put(f, headers_map(h), Strip(Join(acc, <<NL>>)))

\* parser2.py: is_question_header
is_question_header(line) ==
    Len(line) > 1 /\ line[1] = "Q" /\ IsDigit(line[2])

\* str.split(' ', 2)[0]
FirstWord(t) ==
    LET k == Find(t, <<SP>>, 0) IN IF k = -1 THEN t ELSE Slice(t, 0, k)

\* parser2.py: the offsets of the header lines
P2_QStarts(ls) ==
    LET RECURSIVE Scan(_)
        Scan(k) ==
            IF k >= Len(ls) THEN <<>>
            ELSE (IF is_question_header(ls[k + 1]) THEN <<k>> ELSE <<>>) \o Scan(k + 1)
    IN Scan(0)

P2_start_idx == starts[i + 1]
P2_end_idx == IF i + 1 < Len(starts) THEN starts[i + 2] ELSE Len(lines)
P2_header_line == Strip(lines[P2_start_idx + 1])
P2_q_id == FirstWord(P2_header_line)
P2_body_lines == Slice(lines, P2_start_idx + 1, P2_end_idx)

T_Unknown == <<"U", "n", "k", "n", "o", "w", "n">>

\* title_start: the first offset after len(q_id) of a letter, or 0
P2_title_start ==
    LET hits == {p \in 0..(Len(P2_header_line) - 1) :
                    p > Len(P2_q_id) /\ IsAlpha(P2_header_line[p + 1])}
    IN IF hits = {} THEN 0 ELSE Least(hits)

\* q_title_suffix, a value the script computes and does not use
P2_q_title_suffix ==
    IF P2_title_start > 0 THEN Slice(P2_header_line, P2_title_start, Len(P2_header_line))
    ELSE T_Unknown

\* parse_questions.py: ^(Q\d+).*?([A-Za-z].+)$ with re.MULTILINE
\* the line that starts at offset a of t, without its newline
LineAt(t, a) ==
    LET k == Find(t, <<NL>>, a) IN Slice(t, a, IF k = -1 THEN Len(t) ELSE k)

IsLineStart(t, a) == a = 0 \/ t[a] = NL

\* the end of the run of digits that starts at offset a
DigitsEnd(t, a) == RunEnd(t, a, IsDigit)

\* the least offset p >= from of a letter that has a character after it, or -1
TitleStart(ln, from) ==
    LET hits == {p \in from..(Len(ln) - 2) : IsAlpha(ln[p + 1])} IN
    IF hits = {} THEN -1 ELSE Least(hits)

PQ_LineMatches(ln) ==
    /\ Len(ln) >= 2 /\ ln[1] = "Q" /\ IsDigit(ln[2])
    /\ TitleStart(ln, DigitsEnd(ln, 1)) # -1

\* re.finditer: the matches in order, each one a whole line
PQ_Matches_List(t) ==
    LET RECURSIVE Scan(_)
        Scan(a) ==
            IF a > Len(t) THEN <<>>
            ELSE LET ln == LineAt(t, a) IN
                 (IF a < Len(t) /\ PQ_LineMatches(ln)
                  THEN <<[start |-> a, end |-> a + Len(ln),
                          group1 |-> Slice(ln, 0, DigitsEnd(ln, 1)),
                          group2 |-> Slice(ln, TitleStart(ln, DigitsEnd(ln, 1)), Len(ln))]>>
                  ELSE <<>>)
                 \o Scan(a + Len(ln) + 1)
    IN Scan(0)

\* a slip: the body starts one character after the end of the match
PQ_BodyOfSkip(t, ms, k) ==
    Slice(t, ms[k + 1].end + 1,
          IF k + 1 < Len(ms) THEN ms[k + 2].start ELSE Len(t))

\* the body of record k (0-based): content[start:end], start the end of its
\* match, end the start of the next match or len(content)
PQ_BodyOf(t, ms, k) ==
    Slice(t, ms[k + 1].end,
          IF k + 1 < Len(ms) THEN ms[k + 2].start ELSE Len(t))

PQ_body == PQ_BodyOf(content, starts, i)

-----------------------------------------------------------------------------
(* The escaping call, one replace at a time, on every text over a small   *)
(* alphabet                                                                *)

MaxText == 4

EscAlphabet == {BS, DQ, NL, "n", "a"}

Texts == UNION {[1..k -> EscAlphabet] : k \in 0..MaxText}

RunIdle ==
    /\ script = None
    /\ pc = "idle"
    /\ file_exists = FALSE
    /\ content = <<>>
    /\ lines = <<>>
    /\ starts = <<>>
    /\ units = <<>>
    /\ i = 0
    /\ pos = 0
    /\ current_header = None
    /\ current_content = <<>>
    /\ fields = <<>>
    /\ input_handle = "unopened"
    /\ questions = <<>>
    /\ swift_code = <<>>
    /\ stdout = <<>>
    /\ outfile = NoFile
    /\ stderr = <<>>

InitEscape ==
    /\ RunIdle
    /\ esc_s \in Texts
    /\ esc_r = esc_s
    /\ esc_n = 0

ReplaceBackslash ==
    /\ esc_n = 0
    /\ esc_r' = EscapeStep(1, esc_r)
    /\ esc_n' = 1
    /\ UNCHANGED <<esc_s, runVars>>

ReplaceQuote ==
    /\ esc_n = 1
    /\ esc_r' = EscapeStep(2, esc_r)
    /\ esc_n' = 2
    /\ UNCHANGED <<esc_s, runVars>>

ReplaceNewline ==
    /\ esc_n = 2
    /\ esc_r' = EscapeStep(3, esc_r)
    /\ esc_n' = 3
    /\ UNCHANGED <<esc_s, runVars>>

NextEscape == ReplaceBackslash \/ ReplaceQuote \/ ReplaceNewline

SpecEscape == InitEscape /\ [][NextEscape]_vars

-----------------------------------------------------------------------------
(* Output items: a printed diagnostic, a fixed line, a declaration *)

Diag(text) == [kind |-> "diag", text |-> text]
Fixed(text) == [kind |-> "line", text |-> text]

LineScanners == {"parser2", "parse_questions"}

\* the four lines appended before the loop over questions
Level1Header ==
    <<Fixed("    private static func generateLevel1Questions(for language: Language) -> [Question] {"),
      Fixed("        var questions: [Question] = []"),
      Fixed(""),
      Fixed("        if language == .swift {")>>

\* the three lines appended after it
Level1Footer ==
    <<Fixed("        }"),
      Fixed("        return questions"),
      Fixed("    }")>>

\* questions.append({...}): identifier, title (the text after the fixed
\* 'Level 1 - Question '), and the six fields read with fields.get(role, '')
QuestionRecord(q_id, f) ==
    [identifier |-> q_id,
     title |-> Slice(q_id, 1, Len(q_id)),
     description |-> Get(f, "description"),
     initialCode |-> Get(f, "initialCode"),
     correctCode |-> Get(f, "correctCode"),
     riddle |-> Get(f, "riddle"),
     conceptExplanation |-> Get(f, "conceptExplanation"),
     expectedPatterns |-> Get(f, "expectedPatterns")]

\* regex_list: the non-blank lines of expectedPatterns, stripped and escaped
RECURSIVE RegexList(_)
RegexList(ls) ==
    IF ls = <<>> THEN <<>>
    ELSE (IF Strip(ls[1]) # <<>> THEN <<escape_swift_string(Strip(ls[1]))>> ELSE <<>>)
         \o RegexList(Tail(ls))

\* the lines appended for one question; the texts are those put between quotes
Level1Decl(q) ==
    [kind |-> "decl",
     title |-> q.title,
     description |-> escape_swift_string(q.description),
     initialCode |-> escape_swift_string(q.initialCode),
     correctCode |-> escape_swift_string(q.correctCode),
     riddle |-> escape_swift_string(q.riddle),
     conceptExplanation |-> escape_swift_string(q.conceptExplanation),
     expectedPatterns |->
        IF q.expectedPatterns = <<>> THEN <<>>
        ELSE RegexList(SplitNL(q.expectedPatterns))]

-----------------------------------------------------------------------------
(* parser2.py *)

\* a slip: the test of os.path.exists left out
P2_OpenUnchecked ==
    /\ script = "parser2" /\ pc = "start"
    /\ stdout' = stdout \o <<Diag("SCRIPT STARTED"), Diag("Reading")>>
    /\ input_handle' = "open"
    /\ pc' = "read"
    /\ UNCHANGED <<units, script, file_exists, content, lines, starts, i, pos,
                   current_header, current_content, fields, questions, swift_code,
                   outfile, stderr, escVars>>

\* lines 1-11: the prints, the test of the path, and open() of the with statement
P2_Open ==
    /\ script = "parser2" /\ pc = "start"
    /\ IF ~file_exists
       THEN /\ stdout' = stdout \o <<Diag("SCRIPT STARTED"), Diag("Reading"),
                                      Diag("File not found")>>
            /\ pc' = "exit1"
            /\ UNCHANGED input_handle
       ELSE /\ stdout' = stdout \o <<Diag("SCRIPT STARTED"), Diag("Reading")>>
            /\ input_handle' = "open"
            /\ pc' = "read"
    /\ UNCHANGED <<units, script, file_exists, content, lines, starts, i, pos,
                   current_header, current_content, fields, questions, swift_code,
                   outfile, stderr, escVars>>

\* lines 12-14: f.readlines(), the end of the with statement, which closes f,
\* and the print
P2_Read ==
    /\ script = "parser2" /\ pc = "read"
    /\ lines' = ReadLines(content)
    /\ input_handle' = "closed"
    /\ stdout' = Append(stdout, Diag("Read lines"))
    /\ pc' = "find"
    /\ UNCHANGED <<units, script, file_exists, content, starts, i, pos, current_header,
                   current_content, fields, questions, swift_code, outfile, stderr,
                   escVars>>

P2_FindStarts ==
    /\ script = "parser2" /\ pc = "find"
    /\ starts' = P2_QStarts(lines)
    /\ stdout' = Append(stdout, Diag("Found questions"))
    /\ pc' = IF starts' = <<>> THEN "exit0" ELSE "record"
    /\ i' = 0
    /\ UNCHANGED <<units, script, file_exists, content, lines, pos, current_header,
                   current_content, fields, questions, swift_code, outfile, stderr, input_handle, escVars>>

\* a slip: the mapping and the open label of the previous record are kept
P2_BeginRecordKeepFields ==
    /\ script = "parser2" /\ pc \in {"record", "next"}
    /\ i' = IF pc = "next" THEN i + 1 ELSE i
    /\ pos' = 0
    /\ pc' = "scan"
    /\ UNCHANGED <<units, script, file_exists, content, lines, starts, questions,
                   fields, current_header, current_content,
                   swift_code, stdout, outfile, stderr, input_handle, escVars>>

P2_BeginRecord ==
    /\ script = "parser2" /\ pc \in {"record", "next"}
    /\ i' = IF pc = "next" THEN i + 1 ELSE i
    /\ fields' = <<>>
    /\ current_header' = None
    /\ current_content' = <<>>
    /\ pos' = 0
    /\ pc' = "scan"
    /\ UNCHANGED <<units, script, file_exists, content, lines, starts, questions,
                   swift_code, stdout, outfile, stderr, input_handle, escVars>>

P2_ScanLine ==
    /\ script = "parser2" /\ pc = "scan" /\ pos < Len(P2_body_lines)
    /\ LET line == P2_body_lines[pos + 1]
           h == FirstHeader("parser2", Strip(line), 1)
       IN IF h # None
          THEN /\ fields' = StoreField(fields, current_header, current_content)
               /\ current_header' = h
               /\ current_content' = <<>>
          ELSE /\ current_content' =
                     IF current_header # None
                     THEN Append(current_content, RStrip(line))
                     ELSE current_content
               /\ UNCHANGED <<fields, current_header>>
    /\ pos' = pos + 1
    /\ UNCHANGED <<units, script, pc, file_exists, content, lines, starts, i, questions,
                   swift_code, stdout, outfile, stderr, input_handle, escVars>>

P2_EndRecord ==
    /\ script = "parser2" /\ pc = "scan" /\ pos = Len(P2_body_lines)
    /\ fields' = StoreField(fields, current_header, current_content)
    /\ questions' = Append(questions, QuestionRecord(P2_q_id, fields'))
    /\ pc' = IF i + 1 < Len(starts) THEN "next" ELSE "generate"
    /\ UNCHANGED <<units, script, file_exists, content, lines, starts, i, pos, current_header,
                   current_content, swift_code, stdout, outfile, stderr, input_handle, escVars>>

-----------------------------------------------------------------------------
(* parse_questions.py *)

PQ_Open ==
    /\ script = "parse_questions" /\ pc = "start"
    /\ IF ~file_exists
       THEN /\ stdout' = Append(stdout, Diag("Error: File not found"))
            /\ pc' = "return"
            /\ UNCHANGED input_handle
       ELSE /\ input_handle' = "open"
            /\ pc' = "read"
            /\ UNCHANGED stdout
    /\ UNCHANGED <<units, script, file_exists, content, lines, starts, i, pos,
                   current_header, current_content, fields, questions, swift_code,
                   outfile, stderr, escVars>>

\* line 10: content = f.read() and the end of the with statement, which closes
\* f; the variable content holds the text of the file from here on
PQ_Read ==
    /\ script = "parse_questions" /\ pc = "read"
    /\ input_handle' = "closed"
    /\ pc' = "find"
    /\ UNCHANGED <<units, script, file_exists, content, lines, starts, i, pos,
                   current_header, current_content, fields, questions, swift_code,
                   stdout, outfile, stderr, escVars>>

PQ_FindMatches ==
    /\ script = "parse_questions" /\ pc = "find"
    /\ starts' = PQ_Matches_List(content)
    /\ IF starts' = <<>>
       THEN /\ stdout' = stdout \o <<Diag("No matches found for question pattern."),
                                      Diag("First 500 chars:"),
                                      [kind |-> "excerpt", text |-> Slice(content, 0, 500)]>>
            /\ pc' = "return"
       ELSE /\ pc' = "record"
            /\ UNCHANGED stdout
    /\ i' = 0
    /\ UNCHANGED <<units, script, file_exists, content, lines, pos, current_header,
                   current_content, fields, questions, swift_code, outfile, stderr, input_handle, escVars>>

PQ_BeginRecord ==
    /\ script = "parse_questions" /\ pc \in {"record", "next"}
    /\ i' = IF pc = "next" THEN i + 1 ELSE i
    /\ lines' = SplitNL(PQ_BodyOf(content, starts, i'))
    /\ fields' = <<>>
    /\ current_header' = None
    /\ current_content' = <<>>
    /\ pos' = 0
    /\ pc' = "scan"
    /\ UNCHANGED <<units, script, file_exists, content, starts, questions,
                   swift_code, stdout, outfile, stderr, input_handle, escVars>>

PQ_ScanLine ==
    /\ script = "parse_questions" /\ pc = "scan" /\ pos < Len(lines)
    /\ LET line == lines[pos + 1]
           h == FirstHeader("parse_questions", Strip(line), 1)
       IN IF h # None
          THEN /\ fields' = StoreField(fields, current_header, current_content)
               /\ current_header' = h
               /\ current_content' = <<>>
          ELSE /\ current_content' =
                     IF current_header # None
                     THEN Append(current_content, line)
                     ELSE current_content
               /\ UNCHANGED <<fields, current_header>>
    /\ pos' = pos + 1
    /\ UNCHANGED <<units, script, pc, file_exists, content, lines, starts, i, questions,
                   swift_code, stdout, outfile, stderr, input_handle, escVars>>

PQ_EndRecord ==
    /\ script = "parse_questions" /\ pc = "scan" /\ pos = Len(lines)
    /\ fields' = StoreField(fields, current_header, current_content)
    /\ questions' = Append(questions, QuestionRecord(starts[i + 1].group1, fields'))
    /\ pc' = IF i + 1 < Len(starts) THEN "next" ELSE "generate"
    /\ UNCHANGED <<units, script, file_exists, content, lines, starts, i, pos, current_header,
                   current_content, swift_code, stdout, outfile, stderr, input_handle, escVars>>

-----------------------------------------------------------------------------
(* parser2.py and parse_questions.py: the generation of the Swift text *)

GenHeader ==
    /\ script \in LineScanners /\ pc = "generate"
    /\ swift_code' = Level1Header
    /\ i' = 0
    /\ pc' = "emit"
    /\ UNCHANGED <<units, script, file_exists, content, lines, starts, pos, current_header,
                   current_content, fields, questions, stdout, outfile, stderr, input_handle, escVars>>

GenDecl ==
    /\ script \in LineScanners /\ pc = "emit" /\ i < Len(questions)
    /\ swift_code' = Append(swift_code, Level1Decl(questions[i + 1]))
    /\ i' = i + 1
    /\ UNCHANGED <<units, script, pc, file_exists, content, lines, starts, pos,
                   current_header, current_content, fields, questions, stdout,
                   outfile, stderr, input_handle, escVars>>

GenFooter ==
    /\ script \in LineScanners /\ pc = "emit" /\ i = Len(questions)
    /\ swift_code' = swift_code \o Level1Footer
    /\ stdout' = stdout \o swift_code'
    /\ pc' = "done"
    /\ UNCHANGED <<units, script, file_exists, content, lines, starts, i, pos,
                   current_header, current_content, fields, questions, outfile,
                   stderr, input_handle, escVars>>

-----------------------------------------------------------------------------
(* generate_puzzles.py *)

\* U+FE0F, U+20E3 and U+1F51F, the marks of the keycap numerals
VS16 == "U+FE0F"
KEYCAP == "U+20E3"
KEYCAP_TEN == "U+1F51F"

\* the class [0-9 U+FE0F U+20E3 U+1F51F]
IsOrdinalChar(c) == IsDigit(c) \/ c \in {VS16, KEYCAP, KEYCAP_TEN}

T_QuestionColon == T_Question \o <<COLON>>
T_FixTheCode == <<"F", "i", "x", SP, "t", "h", "e", SP, "c", "o", "d", "e", ".">>
T_LogicError ==
    <<"L", "o", "g", "i", "c", SP, "E", "r", "r", "o", "r", SP, "/", SP, "U", "n", "e", "x", "p", "e", "c", "t", "e", "d", SP, "B", "e", "h", "a", "v", "i", "o", "r">>

\* the end of the run of newlines that starts at offset a
IsNewline(c) == c = NL
NewlinesEnd(t, a) == RunEnd(t, a, IsNewline)

\* the end of the run of whitespace that starts at offset a (\s*)
SpaceEnd(t, a) == RunEnd(t, a, IsSpace)

\* start_pattern, (?:[0-9..]+)[^\n]*\n+Question:, tried at offset a: the end of
\* the match, or -1. The class and [^\n]* take the rest of the line, \n+ every
\* newline that follows, and Question: must come next.
GP_MatchEnd(t, a) ==
    IF a < Len(t) /\ IsOrdinalChar(t[a + 1])
    THEN LET e == Find(t, <<NL>>, a) IN
         IF e = -1 THEN -1
         ELSE LET n == NewlinesEnd(t, e) IN
              IF MatchAt(t, T_QuestionColon, n) THEN n + Len(T_QuestionColon) ELSE -1
    ELSE -1

\* [m.start() for m in re.finditer(start_pattern, content)]: leftmost matches,
\* the search resuming at the end of each
GP_Starts(t) ==
    LET RECURSIVE Scan(_)
        Scan(from) ==
            LET hits == {a \in from..(Len(t) - 1) : GP_MatchEnd(t, a) # -1} IN
            IF hits = {} THEN <<>>
            ELSE <<Least(hits)>> \o Scan(GP_MatchEnd(t, Least(hits)))
    IN Scan(0)

\* a slip: the last block ends one character early
GP_BlocksShort(t, st) ==
    [k \in 1..(Len(st) - 1) |->
        Slice(t, st[k], IF k = Len(st) - 1 THEN st[k + 1] - 1 ELSE st[k + 1])]

\* puzzle_blocks: content[starts[i]:starts[i+1]], starts ending with len(content)
GP_Blocks(t, st) == [k \in 1..(Len(st) - 1) |-> Slice(t, st[k], st[k + 1])]

\* re.sub(r'^[0-9..]+', '', raw_title)
StripOrdinal(t) == Slice(t, RunEnd(t, 0, IsOrdinalChar), Len(t))

\* re.search(r'Question:\s*(.*)', block): group(1).strip(), or the default
GP_Description(block) ==
    LET q == Find(block, T_QuestionColon, 0) IN
    IF q = -1 THEN T_FixTheCode
    ELSE LET a == SpaceEnd(block, q + Len(T_QuestionColon))
             e == Find(block, <<NL>>, a)
         IN Strip(Slice(block, a, IF e = -1 THEN Len(block) ELSE e))

\* re.search(r'\nLabel\n', block): [start, end) of the match, start = -1 if none
GP_LabelMatch(block, label) ==
    LET pat == <<NL>> \o label \o <<NL>>
        a == Find(block, pat, 0)
    IN [start |-> a, end |-> a + Len(pat)]

GP_InitialCode(block) ==
    LET bc == GP_LabelMatch(block, T_BrokenCode)
        er == GP_LabelMatch(block, T_Error)
        cc == GP_LabelMatch(block, T_CorrectCode)
    IN IF bc.start = -1 THEN <<>>
       ELSE Strip(Slice(block, bc.end,
                        IF er.start # -1 THEN er.start
                        ELSE IF cc.start # -1 THEN cc.start ELSE Len(block)))

GP_ErrorMsg(block) ==
    LET er == GP_LabelMatch(block, T_Error)
        cc == GP_LabelMatch(block, T_CorrectCode)
    IN IF er.start = -1 THEN T_LogicError
       ELSE Strip(Slice(block, er.end,
                        IF cc.start # -1 THEN cc.start ELSE Len(block)))

GP_CorrectCode(block) ==
    LET cc == GP_LabelMatch(block, T_CorrectCode)
        ri == GP_LabelMatch(block, T_Riddle)
    IN IF cc.start = -1 THEN <<>>
       ELSE Strip(Slice(block, cc.end,
                        IF ri.start # -1 THEN ri.start ELSE Len(block)))

GP_Riddle(block) ==
    LET ri == GP_LabelMatch(block, T_Riddle) IN
    IF ri.start = -1 THEN <<>> ELSE Strip(Slice(block, ri.end, Len(block)))

\* a slip: every declaration is locked
GP_DeclAllLocked(block, k) ==
    [kind |-> "decl",
     level |-> k + 1,
     title |-> escape_swift_string(Strip(StripOrdinal(Strip(SplitNL(block)[1])))),
     description |-> escape_swift_string(GP_Description(block)),
     initialCode |-> escape_swift_string(GP_InitialCode(block)),
     correctCode |-> escape_swift_string(GP_CorrectCode(block)),
     hints |-> <<escape_swift_string(GP_Riddle(block))>>,
     storyFragment |-> escape_swift_string(GP_ErrorMsg(block)),
     locked |-> TRUE]

\* the Puzzle(...) text of block i (0-based). title is the text after the fixed
\* 'Level <level>: ', storyFragment the text after the fixed 'System Error: '.
GP_Decl(block, k) ==
    [kind |-> "decl",
     level |-> k + 1,
     title |-> escape_swift_string(Strip(StripOrdinal(Strip(SplitNL(block)[1])))),
     description |-> escape_swift_string(GP_Description(block)),
     initialCode |-> escape_swift_string(GP_InitialCode(block)),
     correctCode |-> escape_swift_string(GP_CorrectCode(block)),
     hints |-> <<escape_swift_string(GP_Riddle(block))>>,
     storyFragment |-> escape_swift_string(GP_ErrorMsg(block)),
     locked |-> (k # 0)]

GP_Header == <<Fixed("static let allPuzzles: [Puzzle] = [")>>
GP_Footer == <<Fixed("    ]")>>

\* line 5: open() of the with statement
GP_Open ==
    /\ script = "generate_puzzles" /\ pc = "start"
    /\ IF ~file_exists
       THEN /\ pc' = "crashed"     \* FileNotFoundError, not caught
            /\ stderr' = Append(stderr, Traceback("FileNotFoundError"))
            /\ UNCHANGED input_handle
       ELSE /\ input_handle' = "open"
            /\ pc' = "read"
            /\ UNCHANGED stderr
    /\ UNCHANGED <<units, script, file_exists, content, lines, starts, i, pos,
                   current_header, current_content, fields, questions, swift_code,
                   stdout, outfile, escVars>>

\* a slip: the file is read outside a with statement and never closed
GP_ReadLeak ==
    /\ script = "generate_puzzles" /\ pc = "read"
    /\ lines' = ReadLines(content)
    /\ pc' = "find"
    /\ UNCHANGED <<units, script, file_exists, content, starts, i, pos, current_header,
                   current_content, fields, questions, swift_code, stdout, outfile,
                   stderr, input_handle, escVars>>

\* lines 6-45: readlines, the end of the with statement, which closes f, the
\* scan that only passes, "".join(lines)
GP_Read ==
    /\ script = "generate_puzzles" /\ pc = "read"
    /\ lines' = ReadLines(content)
    /\ input_handle' = "closed"
    /\ pc' = "find"
    /\ UNCHANGED <<units, script, file_exists, content, starts, i, pos, current_header,
                   current_content, fields, questions, swift_code, stdout, outfile,
                   stderr, escVars>>

\* lines 58-76
GP_FindStarts ==
    /\ script = "generate_puzzles" /\ pc = "find"
    /\ LET st == GP_Starts(Flatten(lines)) IN
       IF st = <<>>
       THEN /\ starts' = st
            /\ stdout' = Append(stdout, Diag("No start patterns found!"))
            /\ pc' = "return"
            /\ UNCHANGED <<units, swift_code>>
       ELSE /\ starts' = Append(st, Len(Flatten(lines)))
            /\ units' = GP_Blocks(Flatten(lines), starts')
            /\ stdout' = Append(stdout, Diag("Found puzzle blocks."))
            /\ swift_code' = GP_Header
            /\ pc' = "block"
    /\ i' = 0
    /\ UNCHANGED <<script, file_exists, content, lines, pos, current_header,
                   current_content, fields, questions, outfile, stderr, input_handle, escVars>>

\* lines 78-150, one pass of the loop. Nothing in the try block can raise: every
\* search result is tested before use and lines[0] always exists.
GP_Block ==
    /\ script = "generate_puzzles" /\ pc = "block" /\ i < Len(units)
    /\ swift_code' = Append(swift_code, GP_Decl(units[i + 1], i))
    /\ i' = i + 1
    /\ UNCHANGED <<units, script, pc, file_exists, content, lines, starts, pos,
                   current_header, current_content, fields, questions, stdout,
                   outfile, stderr, input_handle, escVars>>

\* lines 152-159: the closing line, the write, the message, and then
\* len(matches), a name this function never binds: NameError
GP_Finish ==
    /\ script = "generate_puzzles" /\ pc = "block" /\ i = Len(units)
    /\ swift_code' = swift_code \o GP_Footer
    /\ outfile' = FileWith(swift_code')
    /\ stdout' = Append(stdout, Diag("Generated code written to puzzles_swift.txt"))
    /\ pc' = "crashed"
    /\ stderr' = Append(stderr, Traceback("NameError"))
    /\ UNCHANGED <<units, script, file_exists, content, lines, starts, i, pos,
                   current_header, current_content, fields, questions,
                   input_handle, escVars>>

-----------------------------------------------------------------------------
(* generate_questions_l2.py, and generate_questions_c_l2.py whose loop is  *)
(* also that of generate_questions_l3.py                                   *)

\* U+1F539 (small blue diamond) and U+2014 (em dash)
DIAMOND == "U+1F539"
EMDASH == "U+2014"

UnitScripts == {"generate_questions_l2", "generate_questions_c_l2"}

\* the regex DIAMOND ' Q' \d+ ' ' EMDASH ' ' tried at offset a: the end of the
\* match, or -1
MarkerEnd(t, a) ==
    IF MatchAt(t, <<DIAMOND, SP, "Q">>, a) /\ DigitsEnd(t, a + 3) > a + 3
          /\ MatchAt(t, <<SP, EMDASH, SP>>, DigitsEnd(t, a + 3))
    THEN DigitsEnd(t, a + 3) + 3
    ELSE -1

\* re.split(marker, raw_text): the texts before, between and after the matches
ReSplit(t) ==
    LET RECURSIVE Scan(_)
        Scan(from) ==
            LET hits == {a \in from..(Len(t) - 1) : MarkerEnd(t, a) # -1} IN
            IF hits = {} THEN <<Slice(t, from, Len(t))>>
            ELSE <<Slice(t, from, Least(hits))>> \o Scan(MarkerEnd(t, Least(hits)))
    IN Scan(0)

\* re.split(...)[1:]
Units(t) == Tail(ReSplit(t))

\* the last index (0-based) of a line that starts with one of the prefixes;
\* -1, the initial value, if there is none
LastStart(ls, prefixes) ==
    LET hits == {k \in 1..Len(ls) : \E p \in prefixes : StartsWith(ls[k], p)} IN
    IF hits = {} THEN -1 ELSE Greatest(hits) - 1

HasColon(line) == Find(line, <<COLON>>, 0) # -1

\* line.split(':', 1)[1]
AfterColon(line) == Slice(line, Find(line, <<COLON>>, 0) + 1, Len(line))

L2_lines(unit) == SplitNL(Strip(unit))
L2_broken_start(ls) == LastStart(ls, {T_BrokenCode})
L2_error_start(ls) == LastStart(ls, {T_Error \o <<COLON>>, T_Issue \o <<COLON>>})
L2_correct_start(ls) == LastStart(ls, {T_CorrectCode})
L2_riddle_start(ls) == LastStart(ls, {T_Riddle \o <<COLON>>})
L2_answer_start(ls) == LastStart(ls, {T_Answer \o <<COLON>>})

\* lines[x].split(':', 1)[1] raises IndexError on a line without a colon
L2_Raises(ls) ==
    \/ ~HasColon(At(ls, L2_error_start(ls)))
    \/ ~HasColon(At(ls, L2_riddle_start(ls)))
    \/ ~HasColon(At(ls, L2_answer_start(ls)))

\* what one pass prints; title is the number after the fixed 'Level 2 - Question '
L2_Decl(ls, k) ==
    [kind |-> "decl",
     title |-> k,
     description |->
        escape_swift_string(Strip(AfterColon(At(ls, L2_error_start(ls))))),
     initialCode |->
        escape_swift_string(Strip(Join(
            Slice(ls, L2_broken_start(ls) + 1, L2_error_start(ls)), <<NL>>))),
     correctCode |->
        escape_swift_string(Strip(Join(
            Slice(ls, L2_correct_start(ls) + 1, L2_riddle_start(ls)), <<NL>>))),
     riddle |->
        escape_swift_string(Strip(AfterColon(At(ls, L2_riddle_start(ls))))),
     conceptExplanation |->
        escape_swift_string(Strip(AfterColon(At(ls, L2_answer_start(ls)))))]

CL2_question_start(ls) == LastStart(ls, {T_Question})
CL2_broken_start(ls) == LastStart(ls, {T_BrokenCode})
CL2_correct_start(ls) == LastStart(ls, {T_CorrectCode})
CL2_riddle_start(ls) == LastStart(ls, {T_Riddle})
CL2_answer_start(ls) == LastStart(ls, {T_Answer})

CL2_Decl(ls, k) ==
    [kind |-> "decl",
     title |-> k,
     description |->
        escape_swift_string(Strip(Join(
            Slice(ls, CL2_question_start(ls) + 1, CL2_broken_start(ls)), <<NL>>))),
     initialCode |->
        escape_swift_string(Strip(Join(
            Slice(ls, CL2_broken_start(ls) + 1, CL2_correct_start(ls)), <<NL>>))),
     correctCode |->
        escape_swift_string(Strip(Join(
            Slice(ls, CL2_correct_start(ls) + 1, CL2_riddle_start(ls)), <<NL>>))),
     riddle |->
        escape_swift_string(Strip(Join(
            Slice(ls, CL2_riddle_start(ls) + 1, CL2_answer_start(ls)), <<NL>>))),
     conceptExplanation |->
        escape_swift_string(Strip(Join(
            Slice(ls, CL2_answer_start(ls) + 1, Len(ls)), <<NL>>)))]

UnitHeader(sc) ==
    <<Fixed(IF sc = "generate_questions_l2"
            THEN "    private static func generateJavaLevel2Questions() -> [Question] {"
            ELSE "    private static func generateCLevel2Questions() -> [Question] {"),
      Fixed("        var questions: [Question] = []"),
      Fixed("")>>

UnitFooter ==
    <<Fixed(""),
      Fixed("        return questions"),
      Fixed("    }")>>

\* units = re.split(...)[1:], and the three prints before the loop
U_Split ==
    /\ script \in UnitScripts /\ pc = "start"
    /\ units' = Units(content)
    /\ stdout' = stdout \o UnitHeader(script)
    /\ i' = 0
    /\ pc' = "unit"
    /\ UNCHANGED <<script, file_exists, content, lines, starts, pos, current_header,
                   current_content, fields, questions, swift_code, outfile, stderr, input_handle, escVars>>

\* one pass of generate_questions_l2.py's loop
L2_Unit ==
    /\ script = "generate_questions_l2" /\ pc = "unit" /\ i < Len(units)
    /\ lines' = L2_lines(units[i + 1])
    /\ IF L2_Raises(lines')
       THEN /\ pc' = "crashed"     \* IndexError, not caught
            /\ stderr' = Append(stderr, Traceback("IndexError"))
            /\ UNCHANGED <<stdout, i>>
       ELSE /\ stdout' = Append(stdout, L2_Decl(lines', i + 1))
            /\ i' = i + 1
            /\ UNCHANGED <<pc, stderr>>
    /\ UNCHANGED <<units, script, file_exists, content, starts, pos, current_header,
                   current_content, fields, questions, swift_code, outfile,
                   input_handle, escVars>>

\* one pass of generate_questions_c_l2.py's loop
CL2_Unit ==
    /\ script = "generate_questions_c_l2" /\ pc = "unit" /\ i < Len(units)
    /\ lines' = L2_lines(units[i + 1])
    /\ stdout' = Append(stdout, CL2_Decl(lines', i + 1))
    /\ i' = i + 1
    /\ UNCHANGED <<units, script, pc, file_exists, content, starts, pos, current_header,
                   current_content, fields, questions, swift_code, outfile, stderr, input_handle, escVars>>

\* the three prints after the loop
U_Footer ==
    /\ script \in UnitScripts /\ pc = "unit" /\ i = Len(units)
    /\ stdout' = stdout \o UnitFooter
    /\ pc' = "done"
    /\ UNCHANGED <<units, script, file_exists, content, lines, starts, i, pos,
                   current_header, current_content, fields, questions, swift_code,
                   outfile, stderr, input_handle, escVars>>

-----------------------------------------------------------------------------
(* generate_questions_c_l3.py *)

\* U+2013 (en dash)
ENDASH == "U+2013"

\* the decimal digit of k, for k below ten
DigitChar(k) == <<"0", "1", "2", "3", "4", "5", "6", "7", "8", "9">>[k + 1]

\* the regex DIAMOND ' Q' \d+ tried at offset a: the end of the match, or -1
CL3_MarkerEnd(t, a) ==
    IF MatchAt(t, <<DIAMOND, SP, "Q">>, a) /\ DigitsEnd(t, a + 3) > a + 3
    THEN DigitsEnd(t, a + 3)
    ELSE -1

\* re.split(marker, raw_data)[1:]
CL3_Blocks(t) ==
    LET RECURSIVE Scan(_)
        Scan(from) ==
            LET hits == {a \in from..(Len(t) - 1) : CL3_MarkerEnd(t, a) # -1} IN
            IF hits = {} THEN <<Slice(t, from, Len(t))>>
            ELSE <<Slice(t, from, Least(hits))>> \o Scan(CL3_MarkerEnd(t, Least(hits)))
    IN Tail(Scan(0))

\* f"Level 3 - Question {i}", the dash being U+2013
CL3_Fallback(k) ==
    <<"L", "e", "v", "e", "l", SP, "3", SP, ENDASH, SP,
      "Q", "u", "e", "s", "t", "i", "o", "n", SP, DigitChar(k)>>

\* re.search(r'EMDASH (.*)', block): the rest of the line after the first
\* em dash and space of the block, or the fallback
CL3_Title(block, k) ==
    LET a == Find(block, <<EMDASH, SP>>, 0) IN
    IF a = -1 THEN CL3_Fallback(k) ELSE LineAt(block, a + 2)

CL3_Sections == {"question", "broken", "correct", "riddle", "answer"}

\* the section a label line opens, or None
CL3_SectionOf(line_strip) ==
    CASE line_strip = T_Question -> "question"
      [] line_strip = T_BrokenCode -> "broken"
      [] line_strip = T_CorrectCode -> "correct"
      [] line_strip = T_Riddle -> "riddle"
      [] line_strip = T_Answer -> "answer"
      [] OTHER -> None

\* a slip: the lines before the first label go to the question text
CL3_StepFromQuestion(st, line) ==
    LET line_strip == Strip(line)
        sec == IF st.current_section = None THEN "question" ELSE st.current_section
    IN IF line_strip = <<>> THEN st
       ELSE IF CL3_SectionOf(line_strip) # None
       THEN [st EXCEPT !.current_section = CL3_SectionOf(line_strip)]
       ELSE [st EXCEPT !.text[sec] = @ \o line \o <<NL>>]

\* one pass of the loop over block.split('\n'): blank lines are skipped, a
\* label line sets current_section, any other line is appended with a newline
\* to the text of the current section, if there is one
CL3_Step(st, line) ==
    LET line_strip == Strip(line) IN
    IF line_strip = <<>> THEN st
    ELSE IF CL3_SectionOf(line_strip) # None
    THEN [st EXCEPT !.current_section = CL3_SectionOf(line_strip)]
    ELSE IF st.current_section = None THEN st
    ELSE [st EXCEPT !.text[st.current_section] = @ \o line \o <<NL>>]

\* the five texts after the whole loop
CL3_Scan(block) ==
    LET ls == SplitNL(block)
        RECURSIVE Run(_)
        Run(k) ==
            IF k = 0
            THEN [current_section |-> None, text |-> [sec \in CL3_Sections |-> <<>>]]
            ELSE CL3_Step(Run(k - 1), ls[k])
    IN Run(Len(ls)).text

\* title is the value of the variable title, which the declaration does not
\* use; ordinal is the number after the fixed 'Level 3 - Question '
CL3_Record(block, k) ==
    LET text == CL3_Scan(block) IN
    [title |-> CL3_Title(block, k),
     question_text |-> text["question"],
     broken_code |-> text["broken"],
     correct_code |-> text["correct"],
     riddle |-> text["riddle"],
     answer |-> text["answer"]]

CL3_Decl(f, k) ==
    [kind |-> "decl",
     title |-> k,
     description |-> escape_swift_string(Strip(f.question_text)),
     initialCode |-> escape_swift_string(Strip(f.broken_code)),
     correctCode |-> escape_swift_string(Strip(f.correct_code)),
     riddle |-> escape_swift_string(Strip(f.riddle)),
     conceptExplanation |-> escape_swift_string(Strip(f.answer))]

CL3_Header ==
    <<Fixed("    private static func generateCLevel3Questions() -> [Question] {"),
      Fixed("        var questions: [Question] = []")>>

CL3_Footer ==
    <<Fixed("        return questions"),
      Fixed("    }")>>

\* blocks = re.split(...)[1:]
CL3_Split ==
    /\ script = "generate_questions_c_l3" /\ pc = "start"
    /\ units' = CL3_Blocks(content)
    /\ i' = 0
    /\ pc' = "block"
    /\ UNCHANGED <<script, file_exists, content, lines, starts, pos, current_header,
                   current_content, fields, questions, swift_code, stdout, outfile,
                   stderr, input_handle, escVars>>

\* one pass of the loop over blocks
CL3_Block ==
    /\ script = "generate_questions_c_l3" /\ pc = "block" /\ i < Len(units)
    /\ fields' = CL3_Record(units[i + 1], i + 1)
    /\ questions' = Append(questions, CL3_Decl(fields', i + 1))
    /\ i' = i + 1
    /\ UNCHANGED <<units, script, pc, file_exists, content, lines, starts, pos,
                   current_header, current_content, swift_code, stdout, outfile,
                   stderr, input_handle, escVars>>

\* the prints after the loop
CL3_Print ==
    /\ script = "generate_questions_c_l3" /\ pc = "block" /\ i = Len(units)
    /\ stdout' = stdout \o CL3_Header \o questions \o CL3_Footer
    /\ pc' = "done"
    /\ UNCHANGED <<units, script, file_exists, content, lines, starts, i, pos,
                   current_header, current_content, fields, questions, swift_code,
                   outfile, stderr, input_handle, escVars>>

-----------------------------------------------------------------------------
(* The documents *)

EscIdle ==
    /\ esc_s = <<>>
    /\ esc_r = <<>>
    /\ esc_n = 0

MaxLines == 4

\* the most records of a generated document with more than one record
MaxRecords == 2

\* questions_raw.txt: every text of at most MaxLines lines of QVocab
QVocab == {T_Q1, T_Q2, T_Error, T_Riddle, <<SP, "x", SP>>, <<"y">>, <<>>}

\* the text whose lines are ls, each ended by a newline
DocOf(ls) == Flatten([k \in 1..Len(ls) |-> ls[k] \o <<NL>>])

\* lines at the edge of the label test: a label and a colon, a label and a
\* longer tail, a label in the middle of a line, the long label alone, with a
\* colon and with a longer tail
QEdge ==
    {T_Error \o <<COLON>>,
     T_Error \o <<SP, "c", "o", "d", "e", "s">>,
     <<"x", SP>> \o T_Error,
     T_HiddenTests,
     T_HiddenTests \o <<COLON>>,
     T_HiddenTests \o <<SP, "a", "n", "d", SP, "m", "o", "r", "e">>}

\* a record whose Riddle body holds one line of QEdge
QEdgeDocs == {DocOf(<<T_Q1, T_Riddle, <<"y">>, e, <<"z">>>>) : e \in QEdge}

\* a record whose identifier and whose Error body hold a double quote and a
\* backslash
QQuoted == DocOf(<<<<"Q", "1", DQ, BS, SP, "A", "b">>, T_Error, <<"a", DQ, "b", BS>>>>)

\* a record with the Error label twice, a body after each, and Riddle between
QRepeated ==
    DocOf(<<T_Q1, T_Error, <<"o">>, T_Riddle, <<"r">>, T_Error, <<SP, "x", SP>>, <<"y">>>>)

QDocs ==
    {DocOf(ls) : ls \in UNION {[1..k -> QVocab] : k \in 0..MaxLines}}
    \cup QEdgeDocs
    \cup {QQuoted, QRepeated}

\* a section of a record: left out, a label line alone, or a label line and a body
Modes == {"absent", "empty", "body"}

Section(label, mode, body) ==
    CASE mode = "absent" -> <<>>
      [] mode = "empty" -> label \o <<NL>>
      [] mode = "body" -> label \o <<NL>> \o body \o <<NL>>

Preamble == <<"p", NL>>

\* the documents of more than one record: rec(k, s) for k = 1..n, s drawn from
\* the shapes
Multi(shapes, rec(_, _)) ==
    {Flatten([k \in 1..Len(ss) |-> rec(k, ss[k])]) :
        ss \in UNION {[1..n -> shapes] : n \in 2..MaxRecords}}

\* puzzles.txt: a title line, one or two newlines, the Question: line (with one
\* line of text, two, or none), and the sections
GP_Shapes ==
    [gap : {1, 2}, q : {"one", "two", "none"},
     bc : Modes, er : Modes, cc : Modes, ri : Modes]

GP_Compact ==
    {s \in GP_Shapes :
        /\ s.gap = 1 /\ s.q = "one"
        /\ <<s.bc, s.er, s.cc, s.ri>> \in
              {<<"body", "body", "body", "body">>,
               <<"body", "absent", "body", "body">>,
               <<"absent", "absent", "absent", "absent">>}}

GP_Record(k, s) ==
    <<DigitChar(k), SP, "T">> \o [j \in 1..s.gap |-> NL]
    \o T_QuestionColon
    \o (CASE s.q = "one" -> <<SP, "q">>
          [] s.q = "two" -> <<SP, "q", NL, "w">>
          [] s.q = "none" -> <<>>)
    \o <<NL>>
    \o Section(T_BrokenCode, s.bc, <<"b", NL, SP, "b">>)
    \o Section(T_Error, s.er, <<"e">>)
    \o Section(T_CorrectCode, s.cc, <<"c">>)
    \o Section(T_Riddle, s.ri, <<"r">>)

\* a record whose Broken Code body has an indented first line, a blank line
\* inside and characters after the last word of a line
GP_Indented ==
    <<"1", SP, "T", NL>> \o T_QuestionColon \o <<SP, "q", NL>>
    \o T_BrokenCode \o <<NL, SP, "b", SP, NL, NL, "b", NL>>
    \o T_CorrectCode \o <<NL, "c", NL>>
    \o T_Riddle \o <<NL, "r", NL>>

\* a record whose title, question and sections hold a double quote or a
\* backslash
GP_Quoted ==
    <<"1", SP, "T", DQ, NL>> \o T_QuestionColon \o <<SP, "q", BS, NL>>
    \o T_BrokenCode \o <<NL, "b", DQ, NL>>
    \o T_Error \o <<NL, "e", BS, DQ, NL>>
    \o T_Riddle \o <<NL, "r", DQ, NL>>

GP_Docs ==
    {GP_Record(1, s) : s \in GP_Shapes}
    \cup {Preamble \o GP_Record(1, s) : s \in GP_Compact}
    \cup {<<"1">> \o GP_Record(2, s) : s \in GP_Compact}
    \cup {<<"1", NL>> \o T_QuestionColon \o <<SP, "q", NL>>}
    \cup {<<"x", SP>> \o GP_Record(1, s) : s \in GP_Compact}
    \cup {GP_Indented}
    \cup {GP_Quoted}
    \cup {GP_Record(1, s) \o <<"s", SP>> \o GP_Record(2, s) : s \in GP_Compact}
    \cup Multi(GP_Compact, GP_Record)
    \cup {<<>>, Preamble, T_QuestionColon \o <<SP, "q", NL>>,
          Preamble \o T_BrokenCode \o <<NL, "b", NL>>}

Marker(k) == <<DIAMOND, SP, "Q", DigitChar(k), SP, EMDASH, SP>>

\* raw_text of generate_questions_l2.py: a marker and a title, then Broken Code,
\* Error: or Issue:, Correct Code, Riddle: and Answer:
L2_Shapes ==
    [bc : Modes, er : {"absent", "Error", "Issue"}, cc : Modes,
     ri : {"absent", "body"}, an : {"absent", "body"}]

L2_Compact ==
    {s \in L2_Shapes :
        <<s.bc, s.er, s.cc, s.ri, s.an>> \in
            {<<"body", "Error", "body", "body", "body">>,
             <<"body", "absent", "body", "body", "body">>,
             <<"body", "Issue", "body", "absent", "absent">>}}

L2_Record(k, s) ==
    Marker(k) \o <<"T", NL>>
    \o Section(T_BrokenCode, s.bc, <<"b", NL, SP, "b">>)
    \o (CASE s.er = "absent" -> <<>>
          [] s.er = "Error" -> T_Error \o <<COLON, SP, "e", NL>>
          [] s.er = "Issue" -> T_Issue \o <<COLON, SP, "e", NL>>)
    \o Section(T_CorrectCode, s.cc, <<"c">>)
    \o (IF s.ri = "body" THEN T_Riddle \o <<COLON, SP, "r", NL>> ELSE <<>>)
    \o (IF s.an = "body" THEN T_Answer \o <<COLON, SP, "a", NL>> ELSE <<>>)

\* raw_text begins with a newline
L2_Docs ==
    {<<NL>> \o L2_Record(1, s) : s \in L2_Shapes}
    \cup {<<NL>> \o d : d \in Multi(L2_Compact, L2_Record)}
    \cup {<<NL>> \o Marker(1) \o <<"T", NL>> \o L2_Record(2, s) : s \in L2_Compact}
    \cup {<<NL, "x", SP>> \o L2_Record(1, s) : s \in L2_Compact}
    \cup {<<NL>> \o L2_Record(2, s) : s \in L2_Compact}
    \cup {<<>>, <<NL>>, <<NL>> \o Preamble}

\* raw_text of generate_questions_c_l2.py: a marker and a title, then Question,
\* Broken Code, Correct Code, Riddle and Answer
CL2_Shapes == [qu : Modes, bc : Modes, cc : Modes, ri : Modes, an : Modes]

CL2_Compact ==
    {s \in CL2_Shapes :
        <<s.qu, s.bc, s.cc, s.ri, s.an>> \in
            {<<"body", "body", "body", "body", "body">>,
             <<"body", "body", "body", "absent", "body">>,
             <<"empty", "empty", "empty", "empty", "empty">>}}

CL2_Record(k, s) ==
    Marker(k) \o <<"T", NL>>
    \o Section(T_Question, s.qu, <<"q">>)
    \o Section(T_BrokenCode, s.bc, <<"b", NL, SP, "b">>)
    \o Section(T_CorrectCode, s.cc, <<"c">>)
    \o Section(T_Riddle, s.ri, <<"r">>)
    \o Section(T_Answer, s.an, <<"a", NL, NL, "z">>)

\* the complete record
CL2_Full == {s \in CL2_Shapes : \A f \in DOMAIN s : s[f] = "body"}

\* a body line that begins with a label name and is longer than a label line
CL2_LongLine == T_Answer \o <<"s", SP, "a", "r", "e", SP, "m", "a", "n", "y", NL>>

CL2_Docs ==
    {<<NL>> \o CL2_Record(1, s) : s \in CL2_Shapes}
    \cup {<<NL>> \o d : d \in Multi(CL2_Compact, CL2_Record)}
    \cup {<<NL>> \o Marker(1) \o <<"T", NL>> \o CL2_Record(2, s) : s \in CL2_Compact}
    \cup {<<NL>> \o CL2_Record(1, s) \o CL2_LongLine : s \in CL2_Full}
    \cup {<<>>, <<NL>>, <<NL>> \o Preamble}

\* raw_data of generate_questions_c_l3.py: a marker and a header line (with
\* an em dash and a title, with a title alone, or followed by a line that no
\* label precedes), then Question, Broken Code, Correct Code, Riddle and Answer
CL3_Shapes ==
    [hd : {"dash", "plain", "extra"}, qu : Modes, bc : Modes,
     cc : {"absent", "body"}, ri : {"absent", "body"}, an : Modes]

CL3_Compact ==
    {s \in CL3_Shapes :
        <<s.hd, s.qu, s.bc, s.cc, s.ri, s.an>> \in
            {<<"dash", "body", "body", "body", "body", "body">>,
             <<"plain", "body", "body", "absent", "body", "body">>,
             <<"dash", "absent", "absent", "absent", "absent", "absent">>}}

CL3_Text(k, s) ==
    <<DIAMOND, SP, "Q", DigitChar(k)>>
    \o (CASE s.hd = "dash" -> <<SP, EMDASH, SP, "T", NL>>
          [] s.hd = "plain" -> <<SP, "T", NL>>
          [] s.hd = "extra" -> <<SP, EMDASH, SP, "T", NL, "u", NL>>)
    \o Section(T_Question, s.qu, <<SP, "q">>)
    \o Section(T_BrokenCode, s.bc, <<"b", NL, NL, SP, "b", SP>>)
    \o Section(T_CorrectCode, s.cc, <<"c">>)
    \o Section(T_Riddle, s.ri, <<"r">>)
    \o Section(T_Answer, s.an, <<"a", SP, EMDASH, SP, "z">>)

CL3_Docs ==
    {<<NL>> \o CL3_Text(1, s) : s \in CL3_Shapes}
    \cup {<<NL>> \o d : d \in Multi(CL3_Compact, CL3_Text)}
    \cup {<<>>, <<NL>>, <<NL>> \o Preamble}

Docs(sc) ==
    CASE sc \in LineScanners -> QDocs
      [] sc = "generate_puzzles" -> GP_Docs
      [] sc = "generate_questions_l2" -> L2_Docs
      [] sc = "generate_questions_c_l2" -> CL2_Docs
      [] sc = "generate_questions_c_l3" -> CL3_Docs

\* the scripts that test os.path.exists or open the input file
FileScripts == LineScanners \cup {"generate_puzzles"}

Scripts == FileScripts \cup UnitScripts \cup {"generate_questions_c_l3"}

Init ==
    /\ script \in Scripts
    /\ \/ file_exists = TRUE /\ content \in Docs(script)
       \/ file_exists = FALSE /\ content = <<>> /\ script \in FileScripts
    /\ pc = "start"
    /\ lines = <<>>
    /\ starts = <<>>
    /\ units = <<>>
    /\ i = 0
    /\ pos = 0
    /\ current_header = None
    /\ current_content = <<>>
    /\ fields = <<>>
    /\ input_handle = "unopened"
    /\ questions = <<>>
    /\ swift_code = <<>>
    /\ stdout = <<>>
    /\ outfile = NoFile
    /\ stderr = <<>>
    /\ EscIdle

Next ==
    \/ P2_Open \/ P2_Read \/ P2_FindStarts \/ P2_BeginRecord \/ P2_ScanLine \/ P2_EndRecord
    \/ PQ_Open \/ PQ_Read \/ PQ_FindMatches \/ PQ_BeginRecord \/ PQ_ScanLine \/ PQ_EndRecord
    \/ GenHeader \/ GenDecl \/ GenFooter
    \/ GP_Open \/ GP_Read \/ GP_FindStarts \/ GP_Block \/ GP_Finish
    \/ U_Split \/ L2_Unit \/ CL2_Unit \/ U_Footer
    \/ CL3_Split \/ CL3_Block \/ CL3_Print

Spec == Init /\ [][Next]_vars

-----------------------------------------------------------------------------
(* Claims about segmentation *)

\* The offsets at which start_pattern matches and that no earlier match covers:
\* what finditer returns, as a set.
GP_Boundaries(t) ==
    {a \in 0..(Len(t) - 1) :
        /\ GP_MatchEnd(t, a) # -1
        /\ ~\E b \in 0..(a - 1) : GP_MatchEnd(t, b) # -1 /\ GP_MatchEnd(t, b) > a}

\* The indexes of the lines that are question headers.
P2_Boundaries(ls) == {k \in 0..(Len(ls) - 1) : is_question_header(ls[k + 1])}

Range(s) == {s[k] : k \in 1..Len(s)}

StrictlyIncreasing(s) == \A k \in 1..(Len(s) - 1) : s[k] < s[k + 1]

GP_Segmented == script = "generate_puzzles" /\ pc \in {"block", "crashed"} /\ starts # <<>>

P2_Segmented == script = "parser2" /\ pc \in {"record", "scan", "next", "generate"}

\* C1: in generate_puzzles.py the N matches of the boundary rule give N blocks,
\* the starts are strictly increasing, block k is content[starts[k]:starts[k+1]]
\* and the last block ends at the end of the document; in parser2.py the header
\* lines are found in increasing order, record i runs from its header line up to
\* the next header line or the last line, and N records come out of N headers.
C1_SpansFollowBoundaries ==
    /\ GP_Segmented =>
          LET N == Len(starts) - 1 IN
          /\ N = Cardinality(GP_Boundaries(content))
          /\ Range(SubSeq(starts, 1, N)) = GP_Boundaries(content)
          /\ StrictlyIncreasing(starts)
          /\ starts[N + 1] = Len(content)
          /\ Len(units) = N
          /\ \A k \in 1..N : units[k] = Slice(content, starts[k], starts[k + 1])
    /\ P2_Segmented =>
          /\ Len(starts) = Cardinality(P2_Boundaries(lines))
          /\ Range(starts) = P2_Boundaries(lines)
          /\ StrictlyIncreasing(starts)
          /\ pc \in {"scan", "next", "generate"} =>
                /\ P2_start_idx < P2_end_idx
                /\ P2_end_idx \in P2_Boundaries(lines) \cup {Len(lines)}
                /\ \A k \in (P2_start_idx + 1)..(P2_end_idx - 1) : k \notin P2_Boundaries(lines)
                /\ Len(P2_body_lines) = P2_end_idx - P2_start_idx - 1
          /\ pc = "generate" => Len(questions) = Len(starts)

C1_Witness ==
    /\ GP_Segmented
    /\ Len(units) = 2
    /\ i = 2
    /\ units[1] # <<>> /\ units[2] # <<>>

\* the text of match k and the body that follows it
PQ_Span(t, ms, k) == Slice(t, ms[k].start, ms[k].end) \o PQ_BodyOf(t, ms, k - 1)

\* C2: the blocks of generate_puzzles.py, put one after the other, are the
\* document from the first boundary to its end; in parse_questions.py each
\* header match followed by its body, put one after the other, are the document
\* from the first match to its end, and the lines scanned for a record are its
\* body.
C2_SpansCoverSuffix ==
    /\ GP_Segmented =>
          Flatten(units) = Slice(content, starts[1], Len(content))
    /\ (script = "parse_questions" /\ starts # <<>>) =>
          /\ Flatten([k \in 1..Len(starts) |-> PQ_Span(content, starts, k)])
                = Slice(content, starts[1].start, Len(content))
          /\ pc \in {"scan", "next", "generate"} =>
                Join(lines, <<NL>>)
                    = Slice(content, starts[i + 1].end,
                            IF i + 1 < Len(starts) THEN starts[i + 2].start
                            ELSE Len(content))

C2_Witness ==
    /\ script = "parse_questions" /\ pc = "generate"
    /\ Len(starts) = 2
    /\ starts[1].start > 0
    /\ Len(lines) > 1

-----------------------------------------------------------------------------
(* Claims about the line scanners *)

\* a line of the file without its line terminator
Chomp(line) ==
    IF line # <<>> /\ line[Len(line)] = NL THEN SubSeq(line, 1, Len(line) - 1)
    ELSE line

\* The lines of the record just scanned, without terminators.
RecordLines ==
    IF script = "parser2"
    THEN [k \in 1..Len(P2_body_lines) |-> Chomp(P2_body_lines[k])]
    ELSE lines

\* a record has been scanned to its end and fields holds its mapping
RecordScanned == script \in LineScanners /\ pc \in {"next", "generate"}

\* the key the scanner recognizes on line j, or None
LabelOf(ls, j) == FirstHeader(script, Strip(ls[j]), 1)

LabelLines(ls) == {j \in 1..Len(ls) : LabelOf(ls, j) # None}

\* the index of the first label line after line j, or the index after the last
\* line
NextLabel(ls, j) ==
    LET later == {m \in LabelLines(ls) : m > j} IN
    IF later = {} THEN Len(ls) + 1 ELSE Least(later)

\* the lines strictly between label line j and the next label line (or the end
\* of the span), joined by newlines and trimmed
TextAfterLabel(ls, j) ==
    Strip(Join(SubSeq(ls, j + 1, NextLabel(ls, j) - 1), <<NL>>))

\* no later label line of the record has the role of line j
LastOfRole(ls, j) ==
    \A m \in LabelLines(ls) : m > j => headers_map(LabelOf(ls, m)) # headers_map(LabelOf(ls, j))

\* C3: when a record has been scanned, each label line of the record that is
\* the last one for its role has its role in fields, with the lines strictly
\* between it and the next label line (or the end of the span), joined by
\* newlines and trimmed, as the value.
C3_FieldIsLinesBetween ==
    RecordScanned =>
        \A j \in LabelLines(RecordLines) :
            LastOfRole(RecordLines, j) =>
                /\ headers_map(LabelOf(RecordLines, j)) \in DOMAIN fields
                /\ fields[headers_map(LabelOf(RecordLines, j))]
                      = TextAfterLabel(RecordLines, j)

\* label line j is immediately followed by another label line
EmptyBody(ls, j) == j \in LabelLines(ls) /\ j + 1 \in LabelLines(ls)

\* C6: when a record has been scanned, a label line immediately followed by
\* another label line has its role in fields, and the value is the empty string
\* unless a later label line of the same role replaced it.
C6_EmptyFieldIsPresent ==
    RecordScanned =>
        \A j \in 1..Len(RecordLines) :
            EmptyBody(RecordLines, j) =>
                /\ headers_map(LabelOf(RecordLines, j)) \in DOMAIN fields
                /\ LastOfRole(RecordLines, j) =>
                      fields[headers_map(LabelOf(RecordLines, j))] = <<>>

C6_Witness ==
    /\ RecordScanned
    /\ \E j \in 1..Len(RecordLines) :
          /\ EmptyBody(RecordLines, j)
          /\ LastOfRole(RecordLines, j)
          /\ LabelOf(RecordLines, j) # LabelOf(RecordLines, j + 1)
          /\ fields[headers_map(LabelOf(RecordLines, j))] = <<>>
          /\ fields[headers_map(LabelOf(RecordLines, j + 1))] # <<>>

-----------------------------------------------------------------------------
(* Claims about the index-slicing and regex-slicing extractors *)

\* the indexes of the lines of ls that start with one of the prefixes
LinesStarting(ls, prefixes) ==
    {j \in 1..Len(ls) : \E p \in prefixes : StartsWith(ls[j], p)}

\* the only element of a set of one element
TheOne(S) == CHOOSE x \in S : TRUE

\* the lines strictly between line j and the next line of labelLines (or the
\* end of the span), joined by newlines and trimmed
TextBetween(ls, labelLines, j) ==
    LET later == {m \in labelLines : m > j}
        stop == IF later = {} THEN Len(ls) + 1 ELSE Least(later)
    IN Strip(Join(SubSeq(ls, j + 1, stop - 1), <<NL>>))

\* generate_questions_c_l2.py: the five labels, in canonical order
CL2_Labels == <<T_Question, T_BrokenCode, T_CorrectCode, T_Riddle, T_Answer>>

CL2_LabelLines(ls) == LinesStarting(ls, Range(CL2_Labels))

\* every label exactly once and in canonical order
CL2_Canonical(ls) ==
    /\ \A n \in 1..5 : Cardinality(LinesStarting(ls, {CL2_Labels[n]})) = 1
    /\ \A n \in 1..4 : TheOne(LinesStarting(ls, {CL2_Labels[n]}))
                          < TheOne(LinesStarting(ls, {CL2_Labels[n + 1]}))

\* the text between the line of label n and the next label line
CL2_Field(ls, n) ==
    TextBetween(ls, CL2_LabelLines(ls), TheOne(LinesStarting(ls, {CL2_Labels[n]})))

\* the declarations printed so far by a run over units
PrintedDecls == SelectSeq(stdout, LAMBDA it : it.kind = "decl")

\* Index slicing: the declaration of a canonical unit carries the five texts
\* between the labels.
C4_IndexSlicing ==
    (script = "generate_questions_c_l2" /\ pc \in {"unit", "done"}) =>
        \A k \in 1..Len(PrintedDecls) :
            LET ls == L2_lines(units[k])
                d == PrintedDecls[k]
            IN CL2_Canonical(ls) =>
                /\ d.description = escape_swift_string(CL2_Field(ls, 1))
                /\ d.initialCode = escape_swift_string(CL2_Field(ls, 2))
                /\ d.correctCode = escape_swift_string(CL2_Field(ls, 3))
                /\ d.riddle = escape_swift_string(CL2_Field(ls, 4))
                /\ d.conceptExplanation = escape_swift_string(CL2_Field(ls, 5))

\* generate_puzzles.py: the lines that are a label alone, and the Question: line
GP_SectionLabels == {T_BrokenCode, T_Error, T_CorrectCode, T_Riddle}

GP_LinesOf(ls, label) == {j \in 1..Len(ls) : ls[j] = label}

GP_QuestionLines(ls) == LinesStarting(ls, {T_QuestionColon})

GP_LabelLines(ls) ==
    GP_QuestionLines(ls) \cup {j \in 1..Len(ls) : ls[j] \in GP_SectionLabels}

\* Question:, Broken Code, Correct Code and Riddle exactly once, Error at most
\* once, in canonical order
GP_Canonical(ls) ==
    /\ Cardinality(GP_QuestionLines(ls)) = 1
    /\ Cardinality(GP_LinesOf(ls, T_BrokenCode)) = 1
    /\ Cardinality(GP_LinesOf(ls, T_Error)) <= 1
    /\ Cardinality(GP_LinesOf(ls, T_CorrectCode)) = 1
    /\ Cardinality(GP_LinesOf(ls, T_Riddle)) = 1
    /\ TheOne(GP_QuestionLines(ls)) < TheOne(GP_LinesOf(ls, T_BrokenCode))
    /\ TheOne(GP_LinesOf(ls, T_BrokenCode)) < TheOne(GP_LinesOf(ls, T_CorrectCode))
    /\ TheOne(GP_LinesOf(ls, T_CorrectCode)) < TheOne(GP_LinesOf(ls, T_Riddle))
    /\ \A e \in GP_LinesOf(ls, T_Error) :
          TheOne(GP_LinesOf(ls, T_BrokenCode)) < e /\ e < TheOne(GP_LinesOf(ls, T_CorrectCode))

GP_Field(ls, label) == TextBetween(ls, GP_LabelLines(ls), TheOne(GP_LinesOf(ls, label)))

\* the text after Question: on its line and on the lines up to the next label
GP_QuestionText(ls) ==
    LET j == TheOne(GP_QuestionLines(ls))
        later == {m \in GP_LabelLines(ls) : m > j}
        stop == IF later = {} THEN Len(ls) + 1 ELSE Least(later)
    IN Strip(Join(<<Slice(ls[j], Len(T_QuestionColon), Len(ls[j]))>>
                      \o SubSeq(ls, j + 1, stop - 1), <<NL>>))

\* Regex slicing: the declaration of a canonical block carries the texts
\* between the labels.
C4_RegexSlicing ==
    (script = "generate_puzzles" /\ pc \in {"block", "crashed"} /\ starts # <<>>) =>
        \A k \in 1..(Len(swift_code) - 1) :
            k <= Len(units) =>
                LET ls == SplitNL(units[k])
                    d == swift_code[k + 1]
                IN GP_Canonical(ls) =>
                    /\ d.description = escape_swift_string(GP_QuestionText(ls))
                    /\ d.initialCode = escape_swift_string(GP_Field(ls, T_BrokenCode))
                    /\ d.correctCode = escape_swift_string(GP_Field(ls, T_CorrectCode))
                    /\ d.hints = <<escape_swift_string(GP_Field(ls, T_Riddle))>>
                    /\ GP_LinesOf(ls, T_Error) # {} =>
                          d.storyFragment = escape_swift_string(GP_Field(ls, T_Error))

\* C4: for a record that has every label once and in canonical order, each
\* extracted field is the trimmed text between its label and the next label (or
\* the end of the span), in generate_questions_c_l2.py (and _l3.py) and in
\* generate_puzzles.py.
C4_CanonicalFieldsRecovered == C4_IndexSlicing /\ C4_RegexSlicing

\* generate_questions_l2.py: the prefixes its scan tests
L2_Prefixes ==
    {T_BrokenCode, T_Error \o <<COLON>>, T_Issue \o <<COLON>>, T_CorrectCode,
     T_Riddle \o <<COLON>>, T_Answer \o <<COLON>>}

L2_LabelLines(ls) == LinesStarting(ls, L2_Prefixes)

\* the unit has no Error: or Issue: line, and Broken Code and Correct Code once
L2_LacksError(ls) ==
    /\ LinesStarting(ls, {T_Error \o <<COLON>>, T_Issue \o <<COLON>>}) = {}
    /\ Cardinality(LinesStarting(ls, {T_BrokenCode})) = 1
    /\ Cardinality(LinesStarting(ls, {T_CorrectCode})) = 1

L2_Field(ls, label) ==
    TextBetween(ls, L2_LabelLines(ls), TheOne(LinesStarting(ls, {label})))

\* C5: generate_questions_l2.py does not fail on a unit, and for a unit without
\* an Error: or Issue: line the description is empty while initialCode and
\* correctCode are the texts after their own labels.
C5_MissingLabelTolerated ==
    script = "generate_questions_l2" =>
        /\ pc # "crashed"
        /\ \A k \in 1..Len(PrintedDecls) :
              LET ls == L2_lines(units[k])
                  d == PrintedDecls[k]
              IN L2_LacksError(ls) =>
                    /\ d.description = <<>>
                    /\ d.initialCode = escape_swift_string(L2_Field(ls, T_BrokenCode))
                    /\ d.correctCode = escape_swift_string(L2_Field(ls, T_CorrectCode))

-----------------------------------------------------------------------------
(* Claims about the generated output *)

\* what a run has printed apart from its messages
PrintedCode == SelectSeq(stdout, LAMBDA it : it.kind # "diag")

\* the identifier on header k of the line scanners
HeaderId(k) ==
    IF script = "parser2" THEN FirstWord(Strip(lines[starts[k] + 1]))
    ELSE starts[k].group1

UnitDecl(k) ==
    IF script = "generate_questions_l2" THEN L2_Decl(L2_lines(units[k]), k)
    ELSE CL2_Decl(L2_lines(units[k]), k)

\* C9: when a run that found records has ended, its output is the header lines,
\* then the declaration of record 1, of record 2, ... of the last record, each
\* built from its own span, then the footer lines: on standard output for
\* generate_questions_l2.py (and _c_l2.py) and for parser2.py (and
\* parse_questions.py), in puzzles_swift.txt for generate_puzzles.py.
C9_OutputIsHeaderDeclsFooter ==
    /\ (script \in UnitScripts /\ pc \in {"done", "crashed"}) =>
          stdout = UnitHeader(script)
                      \o [k \in 1..Len(units) |-> UnitDecl(k)]
                      \o UnitFooter
    /\ (script \in LineScanners /\ pc = "done") =>
          /\ Len(questions) = Len(starts)
          /\ \A k \in 1..Len(questions) : questions[k].identifier = HeaderId(k)
          /\ PrintedCode = Level1Header
                              \o [k \in 1..Len(questions) |-> Level1Decl(questions[k])]
                              \o Level1Footer
    /\ (script = "generate_puzzles" /\ pc = "crashed" /\ file_exists) =>
          /\ outfile.written
          /\ outfile.text = GP_Header
                              \o [k \in 1..Len(units) |-> GP_Decl(units[k], k - 1)]
                              \o GP_Footer

\* the boundary rule matches nowhere in the document
NoBoundaries ==
    IF script = "generate_puzzles" THEN GP_Boundaries(content) = {}
    ELSE \A a \in 0..Len(content) : MarkerEnd(content, a) = -1

\* the run has ended
Ended ==
    IF script = "generate_puzzles" THEN pc \in {"return", "crashed"}
    ELSE pc \in {"done", "crashed"}

\* C10: when a run of generate_puzzles.py or of generate_questions_l2.py on a
\* non-empty document without any boundary has ended, it has printed a message
\* and nothing else, and has written no file.
C10_NoBoundariesNoOutput ==
    (/\ script \in {"generate_puzzles", "generate_questions_l2"}
     /\ (script = "generate_puzzles" => file_exists)
     /\ content # <<>>
     /\ NoBoundaries
     /\ Ended) =>
        /\ \E k \in 1..Len(stdout) : stdout[k].kind = "diag"
        /\ PrintedCode = <<>>
        /\ ~outfile.written

-----------------------------------------------------------------------------
(* Claims about failures *)

\* the units of generate_questions_l2.py whose extraction raises
L2_Failing == {k \in 1..Len(units) : L2_Raises(L2_lines(units[k]))}

\* the declarations of the units whose extraction does not raise, in order
RECURSIVE L2_DeclsFrom(_)
L2_DeclsFrom(k) ==
    IF k > Len(units) THEN <<>>
    ELSE (IF k \in L2_Failing THEN <<>> ELSE <<L2_Decl(L2_lines(units[k]), k)>>)
         \o L2_DeclsFrom(k + 1)

PrintedDiags == SelectSeq(stdout, LAMBDA it : it.kind = "diag")

\* C11: when a run of generate_questions_l2.py has ended, no exception has
\* reached the top level, every unit whose extraction does not raise has its
\* declaration in the output, in order, and there is one message for each unit
\* whose extraction raises.
C11_FailedRecordSkipped ==
    (script = "generate_questions_l2" /\ pc \in {"done", "crashed"}) =>
        /\ stderr = <<>>
        /\ PrintedDecls = L2_DeclsFrom(1)
        /\ Len(PrintedDiags) = Cardinality(L2_Failing)

\* the run has told that the input file is missing: a message of the script,
\* or the traceback of the FileNotFoundError that open raises
MissingFileReported ==
    IF script = "generate_puzzles"
    THEN stderr = <<Traceback("FileNotFoundError")>>
    ELSE \E k \in 1..Len(stdout) :
            stdout[k] \in {Diag("File not found"), Diag("Error: File not found")}

\* C12: when the input path does not exist, the first step ends the run; the
\* missing file has been reported, nothing but messages has been printed, no
\* file has been written, and no line, boundary, span or record has been
\* computed.
C12_MissingFileNoOutput ==
    (script \in FileScripts /\ ~file_exists /\ pc # "start") =>
        /\ pc \in {"exit1", "return", "crashed"}
        /\ MissingFileReported
        /\ PrintedCode = <<>>
        /\ swift_code = <<>>
        /\ ~outfile.written
        /\ lines = <<>> /\ starts = <<>> /\ units = <<>> /\ questions = <<>>

C12_Witness ==
    /\ script = "generate_puzzles" /\ ~file_exists
    /\ pc = "crashed"
    /\ stdout = <<>>

-----------------------------------------------------------------------------
(* Claims about titles and boundaries *)

IsOrnament(c) == c \in {SP, EMDASH, ENDASH, "-", COLON}

\* a boundary line without its leading ornament, trimmed
AfterOrnament(line) == Strip(Slice(line, RunEnd(line, 0, IsOrnament), Len(line)))

\* parser2.py: the header line after its Q<digits> token and ornament
P2_TitleRemainder ==
    AfterOrnament(Slice(P2_header_line, DigitsEnd(P2_header_line, 1), Len(P2_header_line)))

\* generate_questions_c_l3.py: the boundary line of block k after the marker
CL3_TitleRemainder(k) == AfterOrnament(SplitNL(units[k])[1])

\* generate_puzzles.py: the boundary line of block k after its ordinal
GP_TitleRemainder(k) == AfterOrnament(StripOrdinal(Strip(SplitNL(units[k])[1])))

\* C13: the title of a record is what is left of its boundary line when the
\* leading ordinal and ornament are taken away, or else the placeholder:
\* q_title_suffix in parser2.py ("Unknown"), title in
\* generate_questions_c_l3.py (the numbered fallback), and the text after
\* 'Level <n>: ' in generate_puzzles.py. No step of the derivation raises.
C13_TitleFromBoundaryLine ==
    /\ (script = "parser2" /\ pc \in {"scan", "next"}) =>
          P2_q_title_suffix \in {P2_TitleRemainder, T_Unknown}
    /\ (script = "generate_questions_c_l3" /\ pc \in {"block", "done"} /\ i > 0) =>
          /\ fields.title \in {CL3_TitleRemainder(i), CL3_Fallback(i)}
          /\ stderr = <<>>
    /\ (script = "generate_puzzles" /\ pc \in {"block", "crashed"} /\ starts # <<>>) =>
          \A k \in 1..(Len(swift_code) - 1) :
              k <= Len(units) =>
                  swift_code[k + 1].title = escape_swift_string(GP_TitleRemainder(k))

\* a declaration or a record whose five or six texts are all empty
NoFieldText(d) ==
    /\ d.description = <<>> /\ d.initialCode = <<>> /\ d.correctCode = <<>>
    /\ d.riddle = <<>> /\ d.conceptExplanation = <<>>

\* unit k is a boundary line alone: the next boundary follows it directly
EmptyUnit(k) == Len(L2_lines(units[k])) = 1

\* C14: a record that is a boundary line directly followed by the next
\* boundary line gives an empty record. In parser2.py its mapping is empty and
\* its question has no field text; in generate_questions_l2.py and
\* generate_questions_c_l2.py its pass does not raise and its declaration has
\* no field text.
C14_EmptyRecordLegal ==
    /\ (script = "parser2" /\ pc \in {"next", "generate"} /\ P2_body_lines = <<>>) =>
          /\ fields = <<>>
          /\ NoFieldText(questions[Len(questions)])
    /\ (script \in UnitScripts /\ pc \in {"unit", "done", "crashed"}) =>
          /\ pc = "crashed" => ~EmptyUnit(i + 1)
          /\ \A k \in 1..Len(PrintedDecls) : EmptyUnit(k) => NoFieldText(PrintedDecls[k])

\* the label rule: the trimmed line starts with the key and is at most
\* HeaderSlack characters longer; the first key of headers_map that fits, or None
RuleLabelOf(ls, j) == FirstHeader("parser2", Strip(ls[j]), 1)

RuleLabelLines(ls) == {j \in 1..Len(ls) : RuleLabelOf(ls, j) # None}

\* the lines that start with one of the prefixes and are at most HeaderSlack
\* characters longer than it
RuleLinesStarting(ls, prefixes) ==
    {j \in 1..Len(ls) :
        \E p \in prefixes : StartsWith(ls[j], p) /\ Len(ls[j]) <= Len(p) + HeaderSlack}

\* every label of generate_questions_c_l2.py exactly once by the label rule, in
\* canonical order
CL2_RuleCanonical(ls) ==
    /\ \A n \in 1..5 : Cardinality(RuleLinesStarting(ls, {CL2_Labels[n]})) = 1
    /\ \A n \in 1..4 : TheOne(RuleLinesStarting(ls, {CL2_Labels[n]}))
                          < TheOne(RuleLinesStarting(ls, {CL2_Labels[n + 1]}))

CL2_RuleField(ls, n) ==
    TextBetween(ls, RuleLinesStarting(ls, Range(CL2_Labels)),
                TheOne(RuleLinesStarting(ls, {CL2_Labels[n]})))

\* C15: only a line that starts with a label and is at most HeaderSlack
\* characters longer than it opens or closes a field. When a record of
\* parser2.py or parse_questions.py has been scanned, the roles in fields are
\* the roles of such lines; a declaration of generate_questions_c_l2.py whose
\* unit has each label once on such a line, in order, carries the texts between
\* those lines.
C15_LabelWithinSlack ==
    /\ RecordScanned =>
          DOMAIN fields = {headers_map(RuleLabelOf(RecordLines, j)) :
                              j \in RuleLabelLines(RecordLines)}
    /\ (script = "generate_questions_c_l2" /\ pc \in {"unit", "done"}) =>
          \A k \in 1..Len(PrintedDecls) :
              LET ls == L2_lines(units[k])
                  d == PrintedDecls[k]
              IN CL2_RuleCanonical(ls) =>
                  /\ d.riddle = escape_swift_string(CL2_RuleField(ls, 4))
                  /\ d.conceptExplanation = escape_swift_string(CL2_RuleField(ls, 5))

\* the first line after the line at offset a of t that is not blank, trimmed,
\* or the empty text when every later line is blank
NextNonBlank(t, a) ==
    LET e == Find(t, <<NL>>, a)
        later == IF e = -1 THEN <<>> ELSE SplitNL(Slice(t, e + 1, Len(t)))
        hits == {m \in 1..Len(later) : Strip(later[m]) # <<>>}
    IN IF hits = {} THEN <<>> ELSE Strip(later[Least(hits)])

\* the line at offset a of t is followed, after blank lines only, by a line
\* that starts with one of the labels
OpensWith(t, a, labels) == \E p \in labels : StartsWith(NextNonBlank(t, a), p)

AllHeaderTexts == {HeaderText(HeaderKeys[k]) : k \in 1..Len(HeaderKeys)}

\* the offset in content of line k (0-based) of lines
LineOffset(k) == Len(Flatten(SubSeq(lines, 1, k)))

\* the markers of raw_text that stand at the start of a line and are followed
\* by a label
L2_RuleBoundaries ==
    {a \in 0..(Len(content) - 1) :
        /\ MarkerEnd(content, a) # -1
        /\ IsLineStart(content, a)
        /\ OpensWith(content, a, L2_Prefixes)}

\* C16: a record boundary stands at the start of a line that begins with the
\* record-index token, and that line is followed, after blank lines only, by
\* an opening label. Every offset generate_puzzles.py found and every header
\* line parser2.py found is such a place, and generate_questions_l2.py has one
\* unit for each such marker.
C16_BoundaryAtLineStartBeforeLabel ==
    /\ GP_Segmented =>
          \A k \in 1..(Len(starts) - 1) :
              /\ IsLineStart(content, starts[k])
              /\ IsOrdinalChar(content[starts[k] + 1])
              /\ OpensWith(content, starts[k], {T_QuestionColon})
    /\ P2_Segmented =>
          \A k \in 1..Len(starts) :
              /\ is_question_header(lines[starts[k] + 1])
              /\ OpensWith(content, LineOffset(starts[k]), AllHeaderTexts)
    /\ (script = "generate_questions_l2" /\ pc \in {"unit", "done", "crashed"}) =>
          Len(units) = Cardinality(L2_RuleBoundaries)

-----------------------------------------------------------------------------
(* Claims about the scan of a span *)

\* the lines of the record, after its boundary line, that precede its first
\* label line and are not blank
PreLabelLines(ls) == {j \in 1..(NextLabel(ls, 0) - 1) : Strip(ls[j]) # <<>>}

\* generate_questions_c_l3.py: the lines of block i, the rest of the boundary
\* line first
CL3_BlockLines == SplitNL(units[i])

CL3_FirstLabel ==
    LET hits == {j \in 1..Len(CL3_BlockLines) :
                    CL3_SectionOf(Strip(CL3_BlockLines[j])) # None}
    IN IF hits = {} THEN Len(CL3_BlockLines) + 1 ELSE Least(hits)

CL3_PreLabelLines ==
    {j \in 2..(CL3_FirstLabel - 1) : Strip(CL3_BlockLines[j]) # <<>>}

\* block i from its first label line on
CL3_FromFirstLabel ==
    Join(SubSeq(CL3_BlockLines, CL3_FirstLabel, Len(CL3_BlockLines)), <<NL>>)

CL3_BlockDone == script = "generate_questions_c_l3" /\ pc \in {"block", "done"} /\ i > 0

TrimBlankLines(ls) ==
    LET full == {j \in 1..Len(ls) : Strip(ls[j]) # <<>>} IN
    IF full = {} THEN <<>>
    ELSE Join(SubSeq(ls, Least(full), Greatest(full)), <<NL>>)

\* the lines strictly between line j and the next line of labelLines (or the
\* end of the span), verbatim
BodyVerbatim(ls, labelLines, j) ==
    LET later == {m \in labelLines : m > j}
        stop == IF later = {} THEN Len(ls) + 1 ELSE Least(later)
    IN TrimBlankLines(SubSeq(ls, j + 1, stop - 1))

\* generate_questions_c_l3.py: the label lines of block i, and the only line of
\* a section
CL3_LabelLines ==
    {j \in 1..Len(CL3_BlockLines) : CL3_SectionOf(Strip(CL3_BlockLines[j])) # None}

CL3_LinesOf(sec) ==
    {j \in CL3_LabelLines : CL3_SectionOf(Strip(CL3_BlockLines[j])) = sec}

CL3_BodyVerbatim(sec) ==
    escape_swift_string(BodyVerbatim(CL3_BlockLines, CL3_LabelLines, TheOne(CL3_LinesOf(sec))))

\* C18: an extracted field is its body with the blank lines at the start and at
\* the end removed and every other character kept: in parser2.py for the last
\* label line of each role, in generate_questions_c_l3.py for each label that
\* the block has once, in generate_puzzles.py for Broken Code and Correct Code
\* of a canonical block.
C18_BodyVerbatim ==
    /\ (RecordScanned /\ script = "parser2") =>
          \A j \in LabelLines(RecordLines) :
              LastOfRole(RecordLines, j) =>
                  fields[headers_map(LabelOf(RecordLines, j))]
                      = BodyVerbatim(RecordLines, LabelLines(RecordLines), j)
    /\ CL3_BlockDone =>
          /\ Cardinality(CL3_LinesOf("question")) = 1 =>
                questions[i].description = CL3_BodyVerbatim("question")
          /\ Cardinality(CL3_LinesOf("broken")) = 1 =>
                questions[i].initialCode = CL3_BodyVerbatim("broken")
          /\ Cardinality(CL3_LinesOf("correct")) = 1 =>
                questions[i].correctCode = CL3_BodyVerbatim("correct")
    /\ GP_Segmented =>
          \A k \in 1..(Len(swift_code) - 1) :
              k <= Len(units) =>
                  LET ls == SplitNL(units[k])
                      d == swift_code[k + 1]
                  IN GP_Canonical(ls) =>
                      /\ d.initialCode = escape_swift_string(
                            BodyVerbatim(ls, GP_LabelLines(ls), TheOne(GP_LinesOf(ls, T_BrokenCode))))
                      /\ d.correctCode = escape_swift_string(
                            BodyVerbatim(ls, GP_LabelLines(ls), TheOne(GP_LinesOf(ls, T_CorrectCode))))

\* C19: the long label is recognized only on a line that, trimmed, equals it:
\* when a record has been scanned, fields has hiddenTests exactly when some
\* line of the record is the label alone, and a line that starts with the
\* label and goes on is no label line.
C19_LongLabelExact ==
    RecordScanned =>
        /\ ("hiddenTests" \in DOMAIN fields)
              <=> (\E j \in 1..Len(RecordLines) : Strip(RecordLines[j]) = T_HiddenTests)
        /\ \A j \in 1..Len(RecordLines) :
              (StartsWith(Strip(RecordLines[j]), T_HiddenTests)
                  /\ Strip(RecordLines[j]) # T_HiddenTests)
                  => LabelOf(RecordLines, j) = None

\* C20: the number in the title of a declaration is the position of its record
\* in the document, counted from 1, whatever the record's text holds: for the
\* records of parser2.py and parse_questions.py and for the declarations
\* generate_questions_l2.py has printed.
C20_OrdinalIsPosition ==
    /\ script \in LineScanners =>
          \A k \in 1..Len(questions) : questions[k].title = <<DigitChar(k)>>
    /\ script = "generate_questions_l2" =>
          \A k \in 1..Len(PrintedDecls) : PrintedDecls[k].title = k

-----------------------------------------------------------------------------
(* Claims about generate_puzzles.py *)

\* the declarations of generate_puzzles.py built so far, after the header item
GP_Decls == SubSeq(swift_code, 2, Len(swift_code))

\* block k has a line that is the Error label alone
GP_HasError(k) == GP_LinesOf(SplitNL(units[k]), T_Error) # {}

\* block k has text after Question: on its line or on the lines up to the next
\* label
GP_HasQuestionText(k) ==
    LET ls == SplitNL(units[k]) IN
    \E j \in GP_QuestionLines(ls) :
        LET later == {m \in GP_LabelLines(ls) : m > j}
            stop == IF later = {} THEN Len(ls) + 1 ELSE Least(later)
        IN Strip(Join(<<Slice(ls[j], Len(T_QuestionColon), Len(ls[j]))>>
                          \o SubSeq(ls, j + 1, stop - 1), <<NL>>)) # <<>>

\* C21: a declaration of generate_puzzles.py carries the default error text
\* exactly when its block has no Error section, and the default question text
\* exactly when its block has no text for Question:.
C21_DefaultsOnlyWhenAbsent ==
    GP_Segmented =>
        \A k \in 1..Len(GP_Decls) :
            k <= Len(units) =>
                /\ (GP_Decls[k].storyFragment = escape_swift_string(T_LogicError))
                      <=> ~GP_HasError(k)
                /\ (GP_Decls[k].description = escape_swift_string(T_FixTheCode))
                      <=> ~GP_HasQuestionText(k)

\* a run over an existing, non-empty document has ended without finding a record
ZeroRecordsRun ==
    /\ script \in {"parse_questions", "generate_puzzles"}
    /\ file_exists /\ content # <<>>
    /\ pc = "return" /\ starts = <<>>

\* C22: when a run of parse_questions.py or of generate_puzzles.py has ended
\* because a non-empty document holds no record, standard output holds an
\* excerpt of the start of the document.
C22_ZeroRecordsExcerpt ==
    ZeroRecordsRun =>
        \E n \in 1..Len(stdout) :
            stdout[n].kind = "excerpt" /\ stdout[n].text = Slice(content, 0, 500)

\* C24: a run of generate_puzzles.py that found a boundary and has left its
\* loop has written the declarations to puzzles_swift.txt and has returned:
\* no exception has reached the top level.
C24_WritesThenReturns ==
    (script = "generate_puzzles" /\ starts # <<>> /\ pc # "block") =>
        /\ outfile = FileWith(swift_code)
        /\ pc = "return"
        /\ stderr = <<>>

-----------------------------------------------------------------------------
(* Claims about the escaping of the emitted texts *)

\* the declarations of parser2.py and parse_questions.py appended so far
Level1Decls == SelectSeq(swift_code, LAMBDA it : it.kind = "decl")

\* C25: every text of a declaration that comes from the document is the
\* escaped form of the extracted text, escaped once: the title, the five texts
\* and the pattern entries of parser2.py and parse_questions.py, and the
\* title, the texts, the hint and the story of generate_puzzles.py.
C25_EscapedExactlyOnce ==
    /\ (script \in LineScanners /\ pc \in {"emit", "done"}) =>
          \A k \in 1..Len(Level1Decls) :
              LET d == Level1Decls[k]
                  q == questions[k]
              IN /\ d.title = escape_swift_string(Slice(q.identifier, 1, Len(q.identifier)))
                 /\ d.description = escape_swift_string(q.description)
                 /\ d.initialCode = escape_swift_string(q.initialCode)
                 /\ d.correctCode = escape_swift_string(q.correctCode)
                 /\ d.riddle = escape_swift_string(q.riddle)
                 /\ d.conceptExplanation = escape_swift_string(q.conceptExplanation)
                 /\ \A n \in 1..Len(d.expectedPatterns) :
                       \E m \in 1..Len(SplitNL(q.expectedPatterns)) :
                           d.expectedPatterns[n]
                               = escape_swift_string(Strip(SplitNL(q.expectedPatterns)[m]))
    /\ GP_Segmented =>
          \A k \in 1..Len(GP_Decls) :
              k <= Len(units) =>
                  LET d == GP_Decls[k]
                      block == units[k]
                  IN /\ d.title = escape_swift_string(
                                     Strip(StripOrdinal(Strip(SplitNL(block)[1]))))
                     /\ d.description = escape_swift_string(GP_Description(block))
                     /\ d.initialCode = escape_swift_string(GP_InitialCode(block))
                     /\ d.correctCode = escape_swift_string(GP_CorrectCode(block))
                     /\ d.hints = <<escape_swift_string(GP_Riddle(block))>>
                     /\ d.storyFragment = escape_swift_string(GP_ErrorMsg(block))

-----------------------------------------------------------------------------
(* Claims about the two line scanners side by side *)

\* the loop of scanner sc over the lines ls of one record body, stepped n
\* times from current_header = None: a label line stores the open field and
\* opens its own, any other line is appended while a field is open (parser2.py
\* appends line.rstrip(), parse_questions.py the line)
RECURSIVE ScanState(_, _, _)
ScanState(sc, ls, n) ==
    IF n = 0 THEN [header |-> None, acc |-> <<>>, f |-> <<>>]
    ELSE LET st == ScanState(sc, ls, n - 1)
             line == ls[n]
             h == FirstHeader(sc, Strip(line), 1)
         IN IF h # None
            THEN [header |-> h, acc |-> <<>>, f |-> StoreField(st.f, st.header, st.acc)]
            ELSE IF st.header # None
            THEN [st EXCEPT !.acc = Append(@, IF sc = "parser2" THEN RStrip(line) ELSE line)]
            ELSE st

\* the mapping after the flush at the end of the span
ScanFields(sc, ls) ==
    LET st == ScanState(sc, ls, Len(ls)) IN StoreField(st.f, st.header, st.acc)

OtherScanner == IF script = "parser2" THEN "parse_questions" ELSE "parser2"

\* the mapping of the running scanner is the one its loop gives
ScanIsLoop == RecordScanned => fields = ScanFields(script, RecordLines)

\* C27: when one of the two scanners has scanned a record, the other scanner,
\* stepped over the same lines, recognizes the same lines as label lines, each
\* with the same label, and ends with the same mapping.
C27_ScannersEquivalent ==
    RecordScanned =>
        /\ \A j \in 1..Len(RecordLines) :
              FirstHeader(OtherScanner, Strip(RecordLines[j]), 1) = LabelOf(RecordLines, j)
        /\ ScanFields(OtherScanner, RecordLines) = fields

\* what the running scanner appends for a line: parser2.py line.rstrip(),
\* parse_questions.py the line
Appended(line) == IF script = "parser2" THEN RStrip(line) ELSE line

\* the lines strictly between label line j and the next label line (or the end
\* of the span), as the running scanner appends them, joined and trimmed
AccumulatedAfter(ls, j) ==
    Strip(Join([m \in 1..(NextLabel(ls, j) - 1 - j) |-> Appended(ls[j + m])], <<NL>>))

\* label line j has an earlier label line of the same role in the record
Repeated(ls, j) ==
    \E m \in LabelLines(ls) :
        m < j /\ headers_map(LabelOf(ls, m)) = headers_map(LabelOf(ls, j))

\* C28: when a record has been scanned and a label occurs more than once in
\* it, the value of its role is the text accumulated after the last
\* occurrence alone.
C28_LastOccurrenceWins ==
    RecordScanned =>
        \A j \in LabelLines(RecordLines) :
            (Repeated(RecordLines, j) /\ LastOfRole(RecordLines, j)) =>
                /\ headers_map(LabelOf(RecordLines, j)) \in DOMAIN fields
                /\ fields[headers_map(LabelOf(RecordLines, j))]
                      = AccumulatedAfter(RecordLines, j)

\* Error twice, with different texts after the two occurrences
C28_Witness ==
    /\ RecordScanned
    /\ \E m, j \in LabelLines(RecordLines) :
          /\ m < j
          /\ LabelOf(RecordLines, m) = "Error" /\ LabelOf(RecordLines, j) = "Error"
          /\ LastOfRole(RecordLines, j)
          /\ AccumulatedAfter(RecordLines, m) # <<>>
          /\ AccumulatedAfter(RecordLines, j) # <<>>
          /\ AccumulatedAfter(RecordLines, m) # AccumulatedAfter(RecordLines, j)
          /\ fields["description"] = AccumulatedAfter(RecordLines, j)

-----------------------------------------------------------------------------
(* Claims about the isolation of records *)

\* the lines of span k (1-based) that the scanner walks: parser2.py
\* lines[start_idx+1:end_idx], parse_questions.py body.split('\n')
SpanLines(k) ==
    IF script = "parser2"
    THEN Slice(lines, starts[k] + 1,
               IF k < Len(starts) THEN starts[k + 1] ELSE Len(lines))
    ELSE SplitNL(PQ_BodyOf(content, starts, k - 1))

\* every stored record is the extraction of its own span, started afresh
RecordsFromOwnSpan ==
    /\ script \in LineScanners =>
          \A k \in 1..Len(questions) :
              questions[k] = QuestionRecord(HeaderId(k), ScanFields(script, SpanLines(k)))
    /\ script = "generate_questions_l2" =>
          \A k \in 1..Len(PrintedDecls) :
              PrintedDecls[k] = L2_Decl(L2_lines(units[k]), k)

\* a step leaves every record stored or printed before it as it was
EarlierRecordsKept ==
    /\ Len(questions') >= Len(questions)
    /\ \A k \in 1..Len(questions) : questions'[k] = questions[k]
    /\ Len(PrintedDecls') >= Len(PrintedDecls)
    /\ \A k \in 1..Len(PrintedDecls) : PrintedDecls'[k] = PrintedDecls[k]

\* C29: whatever records have been processed, the mapping of record k is the
\* extraction of span k alone, started from an empty mapping and no open label
\* (so nothing of an earlier record is in it), and no step changes a record
\* that was stored or printed before it.
C29_RecordsIsolated == []RecordsFromOwnSpan /\ [][EarlierRecordsKept]_vars

\* two records processed; the first has an Error text and a Riddle text, the
\* second has no Error label and keeps an empty description
C29_Witness ==
    /\ script = "parser2" /\ pc = "generate"
    /\ Len(questions) = 2
    /\ questions[1].description # <<>>
    /\ questions[2].description = <<>>
    /\ questions[2] = QuestionRecord(HeaderId(2), ScanFields(script, SpanLines(2)))

-----------------------------------------------------------------------------
(* Claims about the locked flag *)

\* the declarations in puzzles_swift.txt
GP_WrittenDecls == SelectSeq(outfile.text, LAMBDA it : it.kind = "decl")

\* C30: when generate_puzzles.py has written a file with at least one
\* declaration, the first declaration is not locked and every later one is.
C30_OnlyFirstUnlocked ==
    (script = "generate_puzzles" /\ outfile.written /\ GP_WrittenDecls # <<>>) =>
        /\ ~GP_WrittenDecls[1].locked
        /\ \A k \in 2..Len(GP_WrittenDecls) : GP_WrittenDecls[k].locked

C30_Witness ==
    /\ script = "generate_puzzles" /\ outfile.written
    /\ Len(GP_WrittenDecls) = 2
    /\ ~GP_WrittenDecls[1].locked
    /\ GP_WrittenDecls[2].locked

-----------------------------------------------------------------------------
(* Claims about the input file *)

\* the run is past the read: boundary detection, extraction or serialization
\* is running, has ended or has failed
PastRead == script \in FileScripts /\ pc \notin {"start", "read"}

\* C23: in every state past the read of parser2.py, parse_questions.py and
\* generate_puzzles.py the input file object is not open: it is closed when the
\* file was opened, and was never opened when the path does not exist.
C23_HandleClosedAfterRead ==
    PastRead => input_handle = (IF file_exists THEN "closed" ELSE "unopened")

\* generate_puzzles.py has failed after the read, and the file is closed
C23_Witness ==
    /\ script = "generate_puzzles" /\ pc = "crashed" /\ file_exists
    /\ stderr # <<>>
    /\ input_handle = "closed"

-----------------------------------------------------------------------------
(* Claims about escaping *)

\* The character-wise mapping with the first n of (backslash, quote, newline)
\* mapped and every other character unchanged.
RefChar(c, n) ==
    IF c = BS /\ n >= 1 THEN <<BS, BS>>
    ELSE IF c = DQ /\ n >= 2 THEN <<BS, DQ>>
    ELSE IF c = NL /\ n >= 3 THEN <<BS, "n">>
    ELSE <<c>>

RefEscape(t, n) == Flatten([j \in 1..Len(t) |-> RefChar(t[j], n)])

Chars(t) == {t[j] : j \in 1..Len(t)}

\* C7: the three replacements run in the order backslash, quote, newline, and
\* after each of them the value is the character-wise mapping of the argument
\* for the characters replaced so far; after the third it is the reference
\* mapping backslash -> \\, quote -> \", newline -> \n.
C7_EscapeIsCharwise == esc_r = RefEscape(esc_s, esc_n)

C7_Witness == esc_n = 3 /\ {BS, DQ, NL} \subseteq Chars(esc_s)

\* C8: reading the escaped text as the body of a string literal gives back the
\* argument.
C8_RoundTrip == esc_n = 3 => Unescape(esc_r) = esc_s

C8_Witness ==
    /\ esc_n = 3
    /\ \E j \in 1..(Len(esc_s) - 1) : esc_s[j] = BS /\ esc_s[j + 1] = "n"
    /\ {DQ, NL} \subseteq Chars(esc_s)

\* the number of consecutive backslashes that end right before position j of t
BackslashesBefore(t, j) ==
    Greatest({n \in 0..(j - 1) : \A m \in (j - n)..(j - 1) : t[m] = BS})

\* C26: the escaped text holds no newline, and each double quote of it stands
\* right after an odd number of consecutive backslashes.
C26_LiteralNotTerminated ==
    esc_n = 3 =>
        /\ NL \notin Chars(esc_r)
        /\ \A j \in 1..Len(esc_r) :
              esc_r[j] = DQ => BackslashesBefore(esc_r, j) % 2 = 1

\* an argument with a backslash right before a quote, and a newline
C26_Witness ==
    /\ esc_n = 3
    /\ NL \in Chars(esc_s)
    /\ \E j \in 1..(Len(esc_s) - 1) : esc_s[j] = BS /\ esc_s[j + 1] = DQ
    /\ \E j \in 1..Len(esc_r) : esc_r[j] = DQ /\ BackslashesBefore(esc_r, j) = 3

====
